---- MODULE Spec2Model ----
(***************************************************************************)
(* Verification model of the sonar-pr-sparkle quality gate: the pure       *)
(* auto-merge decision (lib/autoMerge.ts and the Java/JUnit combination),  *)
(* the idempotent review-comment upsert (hooks/useGitHub.ts), the          *)
(* decision-history store (hooks/useConfigDatabase.ts and the older        *)
(* localStorage store of lib/autoMergeHistory.ts) and the pipeline run.    *)
(***************************************************************************)
EXTENDS Integers, Sequences, FiniteSets, TLC

VARIABLES
    din,            \* inputs of one evaluation of the decision functions
    dout,           \* its results, or NoResult before the evaluation
    comments,       \* issue comments of the PR on the hosting service
    commentIdStore, \* pr_comment_ids.comment_id for (owner, repo, prNumber)
    up,             \* per caller: the position and locals of postPRComment
    calls,          \* number of postPRComment calls started so far
    allOk,          \* no step of any call has failed so far
    dbHistory,      \* auto_merge_history rows, per pr_number
    lsHistory,      \* localStorage map auto_merge_history_v1, per PR key
    hlog,           \* entries whose save succeeded, newest first, per PR
    hread,          \* what the last getHistory call returned
    selectedPR,     \* Dashboard: the selected PR, or NoPR
    sonarResults,   \* Dashboard: the PR whose quality report is shown, or NoPR
    aiReview,       \* Dashboard: the PR whose AI review is shown, or NoPR
    isAnalyzing,    \* useCodeReview: analyzePR in progress
    isGeneratingAI, \* Dashboard: AI review in progress
    amConfig,       \* auto-merge settings of the AI configuration
    runs,           \* per run slot: the position and locals of a pipeline run
    started,        \* number of pipeline runs started so far
    mergeCall,      \* the position and locals of one mergePR call
    conflicts,      \* MergeConflictDialog and useMergeConflict state
    reviewCall,     \* the position and locals of one generateReview call
    analyzer,       \* the first and the last report of mockSonarResults
    mergeability,   \* the position and locals of one getMergeabilityStatus call
    filesCall,      \* the position and locals of one fetchPRFiles call
    classified,     \* the last changed file classified by detectBusinessLogic
    check,          \* the position and locals of one checkForConflicts call
    roundTrip       \* one history entry, its auto_merge_history row and what is read back

decVars  == <<din, dout>>
upVars   == <<comments, commentIdStore, up, calls, allOk>>
histVars == <<dbHistory, lsHistory, hlog, hread>>
pipeVars == <<selectedPR, sonarResults, aiReview, isAnalyzing, isGeneratingAI,
              amConfig, runs, started>>
extVars  == <<mergeCall, conflicts, reviewCall, analyzer, mergeability, filesCall, classified, check, roundTrip>>
vars     == <<din, dout, comments, commentIdStore, up, calls, allOk,
              dbHistory, lsHistory, hlog, hread,
              selectedPR, sonarResults, aiReview, isAnalyzing, isGeneratingAI,
              amConfig, runs, started, mergeCall, conflicts, reviewCall, analyzer, mergeability, filesCall, classified, check, roundTrip>>

(***************************************************************************)
(* Bounds of the model.                                                    *)
(***************************************************************************)
MaxScore  == 3      \* AI scores and AI thresholds range over 0..MaxScore
MaxIssues == 3      \* issue counts and issue thresholds: 0..MaxIssues
MaxCalls  == 3      \* postPRComment calls per behaviour
MaxSaves  == 22     \* successful saveHistory calls for PR 1 per behaviour
MaxRuns   == 2      \* pipeline runs started per behaviour
MaxResolves == 2    \* resolveConflict calls per behaviour
MaxHighDraws == 1   \* draws of one analysis above the lowest value
MaxPatchLen == 3    \* tokens of the patches enumerated in full

(***************************************************************************)
(* AutoMergeDecisionEngine                                                 *)
(***************************************************************************)
JUnitScoreWithTests == 90
JUnitThresholds == {0, 70, 90, 100}
Modes == {"less", "greater", ""}      \* "" is an unset mode (cfg.mode || 'less')
NoResult == [none |-> TRUE]

Configs ==
    [enabled : BOOLEAN, mode : Modes,
     aiThreshold : 0..MaxScore, sonarThreshold : 0..MaxIssues]

ModeOf(cfg) == IF cfg.mode = "" THEN "less" ELSE cfg.mode

shouldAutoMergeStrict(aiScore, sonarIssues, cfg) ==
    IF ~cfg.enabled THEN FALSE
    ELSE IF ModeOf(cfg) = "less"
         THEN aiScore < cfg.aiThreshold /\ sonarIssues < cfg.sonarThreshold
         ELSE aiScore > cfg.aiThreshold /\ sonarIssues > cfg.sonarThreshold

shouldAutoMergeNoEnabledCheck(aiScore, sonarIssues, cfg) ==
    IF ModeOf(cfg) = "less"
    THEN aiScore <= cfg.aiThreshold /\ sonarIssues <= cfg.sonarThreshold
    ELSE aiScore >= cfg.aiThreshold /\ sonarIssues >= cfg.sonarThreshold

shouldAutoMerge(aiScore, sonarIssues, cfg) ==
    IF ~cfg.enabled THEN FALSE
    ELSE IF ModeOf(cfg) = "less"
         THEN aiScore <= cfg.aiThreshold /\ sonarIssues <= cfg.sonarThreshold
         ELSE aiScore >= cfg.aiThreshold /\ sonarIssues >= cfg.sonarThreshold

\* The text `x OP t => ok` of a reason, by its parts.
Comparison(value, op, threshold, ok) ==
    [value |-> value, op |-> op, threshold |-> threshold, ok |-> ok]

decisionReasonStrict(aiScore, sonarIssues, cfg) ==
    IF ~cfg.enabled THEN [text |-> "Auto-merge disabled"]
    ELSE IF ModeOf(cfg) = "less"
         THEN [mode |-> "less",
               ai |-> Comparison(aiScore, "<=", cfg.aiThreshold, aiScore < cfg.aiThreshold),
               sonar |-> Comparison(sonarIssues, "<=", cfg.sonarThreshold,
                                    sonarIssues < cfg.sonarThreshold)]
         ELSE [mode |-> "greater",
               ai |-> Comparison(aiScore, ">=", cfg.aiThreshold, aiScore > cfg.aiThreshold),
               sonar |-> Comparison(sonarIssues, ">=", cfg.sonarThreshold,
                                    sonarIssues > cfg.sonarThreshold)]

\* decisionReason: 'Auto-merge disabled', or `Mode=m, aiScore=a OP t => ok,
\* sonarIssues=s OP u => ok`.
decisionReason(aiScore, sonarIssues, cfg) ==
    IF ~cfg.enabled THEN [text |-> "Auto-merge disabled"]
    ELSE IF ModeOf(cfg) = "less"
         THEN [mode |-> "less",
               ai |-> Comparison(aiScore, "<=", cfg.aiThreshold, aiScore <= cfg.aiThreshold),
               sonar |-> Comparison(sonarIssues, "<=", cfg.sonarThreshold,
                                    sonarIssues <= cfg.sonarThreshold)]
         ELSE [mode |-> "greater",
               ai |-> Comparison(aiScore, ">=", cfg.aiThreshold, aiScore >= cfg.aiThreshold),
               sonar |-> Comparison(sonarIssues, ">=", cfg.sonarThreshold,
                                    sonarIssues >= cfg.sonarThreshold)]

finalWillMergeIgnoreJUnit(cfg, hasJava, requireJUnit, willMergeBase, junitScore, junitThreshold) ==
    IF cfg.enabled THEN willMergeBase ELSE FALSE

finalWillMergeAlwaysJUnit(cfg, hasJava, requireJUnit, willMergeBase, junitScore, junitThreshold) ==
    IF cfg.enabled
    THEN willMergeBase /\ junitScore >= junitThreshold
    ELSE FALSE

finalWillMerge(cfg, hasJava, requireJUnit, willMergeBase, junitScore, junitThreshold) ==
    IF cfg.enabled
    THEN IF hasJava /\ requireJUnit
         THEN willMergeBase /\ junitScore >= junitThreshold
         ELSE willMergeBase
    ELSE FALSE

DecideInputs ==
    [aiScore : 0..MaxScore, sonarIssues : 0..MaxIssues, cfg : Configs,
     hasJava : BOOLEAN, requireJUnit : BOOLEAN,
     junitScore : {0, JUnitScoreWithTests}, junitThreshold : JUnitThresholds]

Evaluate ==
    /\ dout = NoResult
    /\ LET base == shouldAutoMerge(din.aiScore, din.sonarIssues, din.cfg)
       IN dout' = [none |-> FALSE,
                   base |-> base,
                   reason |-> decisionReason(din.aiScore, din.sonarIssues, din.cfg),
                   final |-> finalWillMerge(din.cfg, din.hasJava,
                                            din.requireJUnit, base,
                                            din.junitScore, din.junitThreshold)]
    /\ UNCHANGED <<din, upVars, histVars, pipeVars, extVars>>

(***************************************************************************)
(* Initial values of the parts of the state a specification leaves alone.  *)
(***************************************************************************)
DecOff ==
    /\ din = [aiScore |-> 0, sonarIssues |-> 0,
              cfg |-> [enabled |-> FALSE, mode |-> "less",
                       aiThreshold |-> 0, sonarThreshold |-> 0],
              hasJava |-> FALSE, requireJUnit |-> FALSE,
              junitScore |-> 0, junitThreshold |-> 0]
    /\ dout = NoResult

UpOff ==
    /\ comments = {}
    /\ commentIdStore = 0
    /\ up = <<>>
    /\ calls = 0
    /\ allOk = TRUE

HistOff ==
    /\ dbHistory = <<>>
    /\ lsHistory = <<>>
    /\ hlog = <<>>
    /\ hread = <<>>

NoPR == 0                   \* selectedPR is null / a result is null

PipeOff ==
    /\ selectedPR = NoPR
    /\ sonarResults = NoPR
    /\ aiReview = NoPR
    /\ isAnalyzing = FALSE
    /\ isGeneratingAI = FALSE
    /\ amConfig = <<>>
    /\ runs = <<>>
    /\ started = 0

(***************************************************************************)
(* The decision functions applied to every input within the bounds.        *)
(***************************************************************************)
\* The state of a component before its first operation.
NoToast == [title |-> "none"]

NoResponse == [none |-> TRUE]

MergeIdle ==
    [pc |-> "Idle", config |-> FALSE, prNumber |-> 0, prState |-> "unknown",
     requests |-> 0, response |-> NoResponse,
     toast |-> NoToast, result |-> FALSE, decision |-> "none"]

MergeOff == mergeCall = MergeIdle

ConflictsIdle ==
    [conflictFiles |-> {}, isCheckingConflicts |-> FALSE,
     aiAnalysis |-> [n \in {"a.ts", "b.md"} |-> [none |-> TRUE]],
     isAnalyzing |-> "", analysing |-> {},
     resolves |-> 0, resolving |-> {}, resolutions |-> {}, resolvedFiles |-> {}]

ConflictsOff == conflicts = ConflictsIdle

NoReview == [none |-> TRUE]

ReviewIdle ==
    [pc |-> "Idle", apiKey |-> FALSE, isGenerating |-> FALSE, failed |-> FALSE,
     response |-> NoResponse, result |-> NoReview]

ReviewOff == reviewCall = ReviewIdle

NoReport == [none |-> TRUE]

AnalyzerIdle == [first |-> NoReport, last |-> NoReport]

AnalyzerOff == analyzer = AnalyzerIdle

NoStatus == [none |-> TRUE]

MergeabilityIdle ==
    [pc |-> "Idle", prNumber |-> 0, response |-> NoResponse, result |-> NoStatus]

MergeabilityOff == mergeability = MergeabilityIdle

FilesIdle ==
    [pc |-> "Idle", config |-> FALSE, prNumber |-> 0, response |-> NoResponse,
     result |-> <<>>]

FilesOff == filesCall = FilesIdle

NotClassified == [none |-> TRUE]

ClassifierOff == classified = NotClassified

CheckIdle ==
    [pc |-> "Idle", isCheckingConflicts |-> FALSE, status |-> NoStatus,
     filesRequests |-> 0, filesResponse |-> NoResponse, conflictFiles |-> <<>>,
     result |-> FALSE]

CheckOff == check = CheckIdle

\* No entry has been saved yet.
RoundTripIdle == [pc |-> "Idle", entry |-> [none |-> TRUE], row |-> [none |-> TRUE], read |-> [none |-> TRUE]]

RoundTripOff == roundTrip = RoundTripIdle

ExtOff ==
    /\ RoundTripOff
    /\ CheckOff
    /\ ClassifierOff
    /\ FilesOff
    /\ MergeabilityOff
    /\ AnalyzerOff
    /\ ReviewOff
    /\ ConflictsOff
    /\ MergeOff

InitDecide ==
    /\ din \in DecideInputs
    /\ dout = NoResult
    /\ UpOff
    /\ HistOff
    /\ PipeOff
    /\ ExtOff

NextDecide == Evaluate

SpecDecide == InitDecide /\ [][NextDecide]_vars

Decided == dout.none = FALSE

\* C1: for an enabled config the base decision is exactly
\* (aiScore <= aiThreshold /\ sonarIssues <= sonarThreshold) in mode 'less'
\* and exactly (aiScore >= aiThreshold /\ sonarIssues >= sonarThreshold) in
\* mode 'greater'; both comparisons include the threshold itself.
C1_InclusiveThresholds ==
    (Decided /\ din.cfg.enabled) =>
        /\ din.cfg.mode = "less" =>
              (dout.base <=> (/\ din.aiScore <= din.cfg.aiThreshold
                              /\ din.sonarIssues <= din.cfg.sonarThreshold))
        /\ din.cfg.mode = "greater" =>
              (dout.base <=> (/\ din.aiScore >= din.cfg.aiThreshold
                              /\ din.sonarIssues >= din.cfg.sonarThreshold))

C1_Witness ==
    /\ Decided
    /\ din.cfg.enabled
    /\ din.cfg.mode = "less"
    /\ din.aiScore = din.cfg.aiThreshold
    /\ din.sonarIssues = din.cfg.sonarThreshold
    /\ dout.base

\* C2: with enabled = false the base decision is false for every score,
\* issue count, mode and threshold.
C2_DisabledNeverMerges ==
    (Decided /\ ~din.cfg.enabled) => ~dout.base

C2_Witness ==
    /\ Decided
    /\ ~din.cfg.enabled
    /\ din.cfg.mode = "greater"
    /\ din.aiScore >= din.cfg.aiThreshold
    /\ din.sonarIssues >= din.cfg.sonarThreshold
    /\ ~dout.base

JUnitApplies == din.hasJava /\ din.requireJUnit

\* C3 as stated: when a Java file is present and JUnit is required, the final
\* decision is the base decision AND (junitScore OP junitThreshold) with OP
\* the operator of the configured mode: <= in 'less', >= in 'greater'.
C3_SameOperatorAsMode ==
    (Decided /\ JUnitApplies) =>
        (dout.final <=>
            (dout.base /\ IF ModeOf(din.cfg) = "less"
                          THEN din.junitScore <= din.junitThreshold
                          ELSE din.junitScore >= din.junitThreshold))

\* C3 amended: when a Java file is present and JUnit is required, the final
\* decision is the base decision AND (junitScore >= junitThreshold), in
\* both modes.
C3_JUnitAtLeast ==
    (Decided /\ JUnitApplies) =>
        (dout.final <=> (dout.base /\ din.junitScore >= din.junitThreshold))

C3_Witness ==
    /\ Decided
    /\ JUnitApplies
    /\ din.cfg.mode = "less"
    /\ dout.base
    /\ din.junitScore = JUnitScoreWithTests
    /\ din.junitThreshold < din.junitScore
    /\ dout.final

\* C4: with auto-merge enabled and either no Java file or JUnit not
\* required, the final decision equals the base decision whatever the JUnit
\* score and threshold are.
C4_BaseAloneGoverns ==
    (Decided /\ din.cfg.enabled /\ ~JUnitApplies) =>
        (dout.final <=> dout.base)

C4_Witness ==
    /\ Decided
    /\ din.cfg.enabled
    /\ ~din.hasJava
    /\ din.requireJUnit
    /\ din.junitScore < din.junitThreshold
    /\ dout.base
    /\ dout.final

\* The truth value of x OP t as the reason renders it.
Rendered(c) == IF c.op = "<=" THEN c.value <= c.threshold ELSE c.value >= c.threshold

\* C25: decisionReason is a function of (aiScore, sonarIssues, cfg) that
\* agrees with shouldAutoMerge: for an enabled config it renders the two
\* comparisons of the configured mode with their truth values, and the
\* decision is true exactly when both rendered truth values are true; for a
\* disabled config it renders the disabled reason and the decision is false.
C25_ReasonAgreesWithDecision ==
    Decided =>
        IF din.cfg.enabled
        THEN /\ dout.reason.mode = ModeOf(din.cfg)
             /\ dout.reason.ai.op = (IF ModeOf(din.cfg) = "less" THEN "<=" ELSE ">=")
             /\ dout.reason.sonar.op = dout.reason.ai.op
             /\ dout.reason.ai.value = din.aiScore
             /\ dout.reason.ai.threshold = din.cfg.aiThreshold
             /\ dout.reason.sonar.value = din.sonarIssues
             /\ dout.reason.sonar.threshold = din.cfg.sonarThreshold
             /\ dout.reason.ai.ok <=> Rendered(dout.reason.ai)
             /\ dout.reason.sonar.ok <=> Rendered(dout.reason.sonar)
             /\ dout.base <=> (dout.reason.ai.ok /\ dout.reason.sonar.ok)
        ELSE /\ dout.reason = [text |-> "Auto-merge disabled"]
             /\ ~dout.base

\* Mode 'greater' with the score at its threshold and fewer issues than the
\* threshold: the reason renders true and false, and the decision is false.
C25_Witness ==
    /\ Decided
    /\ din.cfg.enabled
    /\ din.cfg.mode = "greater"
    /\ din.aiScore = din.cfg.aiThreshold
    /\ din.sonarIssues < din.cfg.sonarThreshold
    /\ dout.reason.ai.ok
    /\ ~dout.reason.sonar.ok
    /\ ~dout.base

(***************************************************************************)
(* RepositoryClient.upsertComment: postPRComment of hooks/useGitHub.ts,    *)
(* one action per await of the function.                                   *)
(***************************************************************************)
UProcs == {1, 2}            \* callers; the sequential runs use caller 1 only
Me == "me"                  \* login of the token's user
Other == "other"
NoLogin == ""               \* the /user lookup failed: login is undefined
NoId == 0                   \* no stored id / no matching comment

\* A comment: marker = its body contains MARKER; reviewLike = its body has
\* the review header or 'Generated by'; text = the body passed by the call
\* that wrote it (0: text not written by postPRComment).
PlainComment(id, author) ==
    [id |-> id, author |-> author, marker |-> FALSE, reviewLike |-> FALSE, text |-> 0]

LegacyReview(id) ==
    [id |-> id, author |-> Me, marker |-> FALSE, reviewLike |-> TRUE, text |-> 0]

InitialComments == { {}, {PlainComment(1, Other)}, {LegacyReview(1)} }

bodyWithoutMarker(body) == [marker |-> FALSE, text |-> body]

bodyWithMarker(body) == [marker |-> TRUE, text |-> body]

Outcomes == {"ok", "forbidden", "error", "throw"}

Scheme(attempt) == IF attempt = 1 THEN "Bearer" ELSE "token"

UIdle ==
    [pc |-> "idle", body |-> 0, storedId |-> NoId, login |-> NoLogin,
     existing |-> NoId, attempt |-> 1, newId |-> NoId, result |-> "none",
     sent |-> <<>>]

MarkerComments == {c \in comments : c.marker}

NewCommentId == Cardinality(comments) + 1

MinId(cs) == CHOOSE c \in cs : \A d \in cs : c.id <= d.id

Matches(c, login) ==
    \/ c.marker /\ (IF login # NoLogin THEN c.author = login ELSE TRUE)
    \/ login # NoLogin /\ c.author = login /\ c.reviewLike

FindExisting(listed, login) ==
    LET found == {c \in listed : Matches(c, login)}
    IN IF found = {} THEN NoId ELSE MinId(found).id

PatchComment(cs, id, b) ==
    {IF c.id = id
     THEN [c EXCEPT !.marker = b.marker, !.text = b.text, !.reviewLike = FALSE]
     ELSE c : c \in cs}

CreateComment(cs, id, b) ==
    cs \cup {[id |-> id, author |-> Me, marker |-> b.marker,
              reviewLike |-> FALSE, text |-> b.text]}

\* doFetch: the request is logged with the credential scheme of its
\* Authorization header and whether its response had status 403.
Request(u, method, id, o) ==
    Append(u.sent, [method |-> method, id |-> id, scheme |-> Scheme(u.attempt),
                    forbidden |-> (o = "forbidden")])

RetryOnAnyFailure(o, attempt) == o # "ok" /\ attempt = 1

\* if (response.status === 403) after the request with `Bearer`: the same
\* request is sent again with `token`.
RetryWithSecondary(o, attempt) == o = "forbidden" /\ attempt = 1

Return(u, value) == [u EXCEPT !.pc = "idle", !.result = value]

UStart(p) ==
    /\ up[p].pc = "idle"
    /\ calls < MaxCalls
    /\ calls' = calls + 1
    /\ up' = [up EXCEPT ![p] = [UIdle EXCEPT !.pc = "getStoredId", !.body = calls + 1]]
    /\ UNCHANGED <<comments, commentIdStore, allOk, decVars, histVars, pipeVars, extVars>>

UGetStoredId(p) ==
    /\ up[p].pc = "getStoredId"
    /\ \E ok \in BOOLEAN :
         LET storedId == IF ok THEN commentIdStore ELSE NoId
         IN /\ up' = [up EXCEPT ![p].storedId = storedId,
                                ![p].pc = IF storedId # NoId THEN "patchStored"
                                          ELSE "getUser"]
            /\ allOk' = (allOk /\ ok)
    /\ UNCHANGED <<comments, commentIdStore, calls, decVars, histVars, pipeVars, extVars>>

UPatchStored(p) ==
    /\ up[p].pc = "patchStored"
    /\ \E o \in Outcomes :
         LET u == [up[p] EXCEPT !.sent = Request(up[p], "PATCH", up[p].storedId, o)]
         IN /\ comments' = IF o = "ok"
                           THEN PatchComment(comments, u.storedId, bodyWithMarker(u.body))
                           ELSE comments
            /\ up' = [up EXCEPT ![p] =
                        IF RetryWithSecondary(o, u.attempt)
                        THEN [u EXCEPT !.attempt = 2]
                        ELSE IF o = "ok"
                             THEN Return(u, "true")
                             ELSE [u EXCEPT !.pc = "getUser", !.attempt = 1]]
            /\ allOk' = (allOk /\ o = "ok")
    /\ UNCHANGED <<commentIdStore, calls, decVars, histVars, pipeVars, extVars>>

UGetUser(p) ==
    /\ up[p].pc = "getUser"
    /\ \E ok \in BOOLEAN :
         /\ up' = [up EXCEPT ![p].login = IF ok THEN Me ELSE NoLogin,
                             ![p].pc = "listComments"]
         /\ allOk' = (allOk /\ ok)
    /\ UNCHANGED <<comments, commentIdStore, calls, decVars, histVars, pipeVars, extVars>>

UListComments(p) ==
    /\ up[p].pc = "listComments"
    /\ \E ok \in BOOLEAN :
         LET listed == IF ok THEN comments ELSE {}
             existing == FindExisting(listed, up[p].login)
         IN /\ up' = [up EXCEPT ![p].existing = existing,
                                ![p].attempt = 1,
                                ![p].pc = IF existing # NoId THEN "patchExisting"
                                          ELSE "post"]
            /\ allOk' = (allOk /\ ok)
    /\ UNCHANGED <<comments, commentIdStore, calls, decVars, histVars, pipeVars, extVars>>

UPatchExisting(p) ==
    /\ up[p].pc = "patchExisting"
    /\ \E o \in Outcomes :
         LET u == [up[p] EXCEPT !.sent = Request(up[p], "PATCH", up[p].existing, o)]
         IN /\ comments' = IF o = "ok"
                           THEN PatchComment(comments, u.existing, bodyWithMarker(u.body))
                           ELSE comments
            /\ up' = [up EXCEPT ![p] =
                        IF RetryWithSecondary(o, u.attempt)
                        THEN [u EXCEPT !.attempt = 2]
                        ELSE IF o = "ok"
                             THEN [u EXCEPT !.pc = "saveId", !.newId = u.existing]
                             ELSE Return(u, "false")]
            /\ allOk' = (allOk /\ o = "ok")
    /\ UNCHANGED <<commentIdStore, calls, decVars, histVars, pipeVars, extVars>>

UPost(p) ==
    /\ up[p].pc = "post"
    /\ \E o \in Outcomes, jsonOk \in BOOLEAN :
         LET u == [up[p] EXCEPT !.sent = Request(up[p], "POST", NoId, o)]
         IN /\ (o # "ok") => jsonOk
            /\ comments' = IF o = "ok"
                           THEN CreateComment(comments, NewCommentId, bodyWithMarker(u.body))
                           ELSE comments
            /\ up' = [up EXCEPT ![p] =
                        IF RetryWithSecondary(o, u.attempt)
                        THEN [u EXCEPT !.attempt = 2]
                        ELSE IF o = "ok"
                             THEN IF jsonOk
                                  THEN [u EXCEPT !.pc = "saveId", !.newId = NewCommentId]
                                  ELSE Return(u, "true")
                             ELSE Return(u, "false")]
            /\ allOk' = (allOk /\ o = "ok" /\ jsonOk)
    /\ UNCHANGED <<commentIdStore, calls, decVars, histVars, pipeVars, extVars>>

USaveId(p) ==
    /\ up[p].pc = "saveId"
    /\ \E ok \in BOOLEAN :
         /\ commentIdStore' = IF ok THEN up[p].newId ELSE commentIdStore
         /\ allOk' = (allOk /\ ok)
    /\ up' = [up EXCEPT ![p] = Return(up[p], "true")]
    /\ UNCHANGED <<comments, calls, decVars, histVars, pipeVars, extVars>>

postPRComment(p) ==
    \/ UStart(p)
    \/ UGetStoredId(p)
    \/ UPatchStored(p)
    \/ UGetUser(p)
    \/ UListComments(p)
    \/ UPatchExisting(p)
    \/ UPost(p)
    \/ USaveId(p)

InitUpsert ==
    /\ comments \in InitialComments
    /\ commentIdStore = NoId
    /\ up = [p \in UProcs |-> UIdle]
    /\ calls = 0
    /\ allOk = TRUE
    /\ DecOff
    /\ HistOff
    /\ PipeOff
    /\ ExtOff

\* Repeated calls, each started after the previous one has returned.
NextUpsertSeq == postPRComment(1)

SpecUpsertSeq == InitUpsert /\ [][NextUpsertSeq]_vars

\* Two callers whose awaits interleave.
NextUpsertConc == \E p \in UProcs : postPRComment(p)

SpecUpsertConc == InitUpsert /\ [][NextUpsertConc]_vars

AllReturned == \A p \in UProcs : up[p].pc = "idle"

\* The positions of postPRComment at which a comment write is sent.
WritePcs == {"patchStored", "patchExisting", "post"}

\* Two logged requests are the same write: same method, same comment.
SameWrite(a, b) == a.method = b.method /\ a.id = b.id

\* C18: every comment write of a postPRComment call (update of the stored
\* id, update of a found comment, creation) is first sent with the primary
\* scheme (Bearer); it is sent again with the secondary scheme (token) once,
\* if and only if the first attempt returned 403, and never a third time; a
\* call reports failure for a write that got 403 only after the secondary
\* attempt was sent and failed too.
C18_SecondaryOnceIffForbidden ==
    \A p \in DOMAIN up :
        LET s == up[p].sent
        IN /\ \A i \in 1..Len(s) :
                /\ s[i].scheme = "token" =>
                      /\ i > 1
                      /\ s[i - 1].scheme = "Bearer"
                      /\ s[i - 1].forbidden
                      /\ SameWrite(s[i - 1], s[i])
                /\ (s[i].scheme = "Bearer" /\ s[i].forbidden) =>
                      IF i < Len(s)
                      THEN s[i + 1].scheme = "token" /\ SameWrite(s[i], s[i + 1])
                      ELSE up[p].pc \in WritePcs /\ up[p].attempt = 2
           /\ up[p].result = "false" =>
                /\ Len(s) > 0
                /\ s[Len(s)].forbidden => s[Len(s)].scheme = "token"

\* A call that found its stored id got 403 for both schemes of the update of
\* the stored id and again for both schemes of the update of the found
\* comment, and then reported failure.
C18_Witness ==
    \E p \in DOMAIN up :
        /\ up[p].pc = "idle"
        /\ up[p].result = "false"
        /\ up[p].storedId # NoId
        /\ Len(up[p].sent) = 4
        /\ \A i \in 1..4 : up[p].sent[i].forbidden
        /\ up[p].sent[4].scheme = "token"

\* C5: from a PR without a review comment, after n >= 1 sequential calls in
\* which every hosting-API call and every comment-id store call succeeded,
\* exactly one comment carries the marker and its body is the last call's.
C5_OneCommentLastBody ==
    (calls >= 1 /\ up[1].pc = "idle" /\ allOk) =>
        /\ Cardinality(MarkerComments) = 1
        /\ \A c \in MarkerComments : c.text = calls

C5_Witness ==
    /\ calls >= 2
    /\ up[1].pc = "idle"
    /\ allOk
    /\ Cardinality(MarkerComments) = 1
    /\ \E c \in MarkerComments : c.text = calls /\ c.id = commentIdStore

\* C6: whatever the outcome of each internal step, repeated sequential calls
\* never leave more than one marker-tagged comment on the PR.
C6_AtMostOneMarkerComment == Cardinality(MarkerComments) <= 1

\* C7: after two concurrent calls have both completed, at most one
\* marker-tagged comment exists, also when every step of both succeeded.
C7_NoDuplicateWhenConcurrent ==
    (AllReturned /\ allOk) => Cardinality(MarkerComments) <= 1

(***************************************************************************)
(* HistoryStore.  The database-backed store (hooks/useConfigDatabase.ts,   *)
(* re-exported as getHistory/saveHistory) and the localStorage store of    *)
(* lib/autoMergeHistory.ts.                                                *)
(***************************************************************************)
HistPRs == {1, 2}
HistoryLimit == 20
MaxOtherSaves == 2      \* successful saves for the PRs other than PR 1

SavesBound(pr) == IF pr = 1 THEN MaxSaves ELSE MaxOtherSaves

\* The entry of the n-th successful save for a PR.
Entry(n) == [seq |-> n]

NoRead == [pr |-> 0, ok |-> FALSE, entries |-> <<>>]

Limit(s, n) == SubSeq(s, 1, IF Len(s) < n THEN Len(s) ELSE n)

RECURSIVE OrderByCreatedAtDesc(_)
OrderByCreatedAtDesc(rows) ==
    IF rows = {} THEN <<>>
    ELSE LET newest == CHOOSE r \in rows : \A q \in rows : q.created_at <= r.created_at
         IN <<newest>> \o OrderByCreatedAtDesc(rows \ {newest})

RowEntries(rows) == [i \in 1..Len(rows) |-> rows[i].entry]

\* select * where pr_number = prNumber order by created_at desc limit 20
getAutoMergeHistory(prNumber, ok) ==
    IF ok
    THEN RowEntries(Limit(OrderByCreatedAtDesc(dbHistory[prNumber]), HistoryLimit))
    ELSE <<>>

\* insert into auto_merge_history; created_at defaults to now()
InsertRow(rows, entry) ==
    rows \cup {[created_at |-> Cardinality(rows) + 1, entry |-> entry]}

SaveAutoMergeHistory(pr) ==
    /\ Len(hlog[pr]) < SavesBound(pr)
    /\ \E ok \in BOOLEAN :
         LET entry == Entry(Len(hlog[pr]) + 1)
         IN /\ dbHistory' = IF ok
                            THEN [dbHistory EXCEPT ![pr] = InsertRow(@, entry)]
                            ELSE dbHistory
            /\ hlog' = IF ok THEN [hlog EXCEPT ![pr] = <<entry>> \o @] ELSE hlog
    /\ hread' = NoRead
    /\ UNCHANGED <<lsHistory, decVars, upVars, pipeVars, extVars>>

GetAutoMergeHistory(pr) ==
    /\ \E ok \in BOOLEAN :
         hread' = [pr |-> pr, ok |-> ok, entries |-> getAutoMergeHistory(pr, ok)]
    /\ UNCHANGED <<dbHistory, lsHistory, hlog, decVars, upVars, pipeVars, extVars>>

EmptyHistory == [pr \in HistPRs |-> <<>>]

\* readAll: the parsed map, or {} when the read or the parse throws.
readAll(ok) == IF ok THEN lsHistory ELSE EmptyHistory

\* getHistory of lib/autoMergeHistory.ts
getHistory(prNumber, ok) == readAll(ok)[prNumber]

\* saveHistory of lib/autoMergeHistory.ts: unshift, slice(0, 20), writeAll
SaveHistoryLocal(pr) ==
    /\ Len(hlog[pr]) < SavesBound(pr)
    /\ \E readOk \in BOOLEAN, writeOk \in BOOLEAN :
         LET entry == Entry(Len(hlog[pr]) + 1)
             map == readAll(readOk)
             arr == <<entry>> \o map[pr]
             newMap == [map EXCEPT ![pr] = Limit(arr, HistoryLimit)]
         IN /\ lsHistory' = IF writeOk THEN newMap ELSE lsHistory
            /\ hlog' = IF writeOk THEN [hlog EXCEPT ![pr] = <<entry>> \o @] ELSE hlog
    /\ hread' = NoRead
    /\ UNCHANGED <<dbHistory, decVars, upVars, pipeVars, extVars>>

GetHistoryLocal(pr) ==
    /\ \E ok \in BOOLEAN :
         hread' = [pr |-> pr, ok |-> ok, entries |-> getHistory(pr, ok)]
    /\ UNCHANGED <<dbHistory, lsHistory, hlog, decVars, upVars, pipeVars, extVars>>

InitHistory ==
    /\ dbHistory = [pr \in HistPRs |-> {}]
    /\ lsHistory = EmptyHistory
    /\ hlog = [pr \in HistPRs |-> <<>>]
    /\ hread = NoRead
    /\ DecOff
    /\ UpOff
    /\ PipeOff
    /\ ExtOff

NextHistoryDB ==
    \E pr \in HistPRs : SaveAutoMergeHistory(pr) \/ GetAutoMergeHistory(pr)

SpecHistoryDB == InitHistory /\ [][NextHistoryDB]_vars

NextHistoryLocal ==
    \E pr \in HistPRs : SaveHistoryLocal(pr) \/ GetHistoryLocal(pr)

SpecHistoryLocal == InitHistory /\ [][NextHistoryLocal]_vars

\* The store holds at most HistoryLimit records for every PR.
StoreCapped ==
    \A pr \in HistPRs :
        /\ Cardinality(dbHistory[pr]) <= HistoryLimit
        /\ Len(lsHistory[pr]) <= HistoryLimit

\* A successful read returns the HistoryLimit most recently saved records
\* of the PR (all of them when fewer were saved), newest first.
ReadReturnsNewest ==
    (hread.pr \in HistPRs /\ hread.ok) =>
        hread.entries = Limit(hlog[hread.pr], HistoryLimit)

\* C9: the HistoryStore never holds more than 20 records for a PR, and after
\* N > 20 saves getHistory returns exactly the 20 most recently saved
\* records, newest first.
C9_AtMostTwentyRecords == StoreCapped /\ ReadReturnsNewest

(***************************************************************************)
(* Orchestrator: one pipeline run for the selected PR.  The steps up to    *)
(* the AI review are handleRunAnalysis of pages/Dashboard.tsx; the         *)
(* decision, merge-or-comment and history steps follow section 4.6 of the  *)
(* specification and the merge condition documented with finalWillMerge.   *)
(***************************************************************************)
RunIds == {1, 2}            \* run slots: up to two runs may overlap
PRs == HistPRs
AIThresholdSetting == 1
SonarThresholdSetting == 1
JUnitThresholdSetting == 70

PipelineConfigs ==
    [enabled : BOOLEAN, mode : {"less", "greater"},
     aiThreshold : {AIThresholdSetting}, sonarThreshold : {SonarThresholdSetting},
     requireJUnitForJava : BOOLEAN, junitThreshold : {JUnitThresholdSetting}]

\* Changed files, as far as the decision reads them.
FileKinds == [hasJava : BOOLEAN, hasTests : BOOLEAN]

NoFiles == [hasJava |-> FALSE, hasTests |-> FALSE]

junitScoreOf(files) == IF files.hasTests THEN JUnitScoreWithTests ELSE 0

AIScores == {0, MaxScore}

IssueCounts == {0, MaxIssues}

Decisions == {"will_merge", "will_not_merge", "merged", "merge_failed", "disabled"}

RunIdle ==
    [pc |-> "Idle", pr |-> NoPR, files |-> NoFiles, issues |-> 0, aiScore |-> 0,
     final |-> FALSE, mergeCalls |-> 0, mergeOk |-> FALSE, commentCalls |-> 0,
     decision |-> "none", saveCalls |-> 0, appended |-> 0, finished |-> FALSE]

HandleSelectPR(pr) ==
    /\ selectedPR' = pr
    /\ sonarResults' = NoPR
    /\ aiReview' = NoPR
    /\ UNCHANGED <<isAnalyzing, isGeneratingAI, amConfig, runs, started,
                   decVars, upVars, histVars, extVars>>

\* Run Full Analysis: enabled while isAnalyzing is false; the run keeps the
\* PR selected when it started.  A run takes the first free slot.
HandleRunAnalysis(r) ==
    /\ runs[r].pc = "Idle"
    /\ \A q \in RunIds : q < r => runs[q].pc # "Idle"
    /\ started < MaxRuns
    /\ selectedPR # NoPR
    /\ ~isAnalyzing
    /\ started' = started + 1
    /\ runs' = [runs EXCEPT ![r] = [RunIdle EXCEPT !.pc = "FilesFetching",
                                                   !.pr = selectedPR]]
    /\ UNCHANGED <<selectedPR, sonarResults, aiReview, isAnalyzing, isGeneratingAI,
                   amConfig, decVars, upVars, histVars, extVars>>

\* await fetchPRFiles: [] on failure; analyzePR then sets isAnalyzing.
FetchPRFiles(r) ==
    /\ runs[r].pc = "FilesFetching"
    /\ \E ok \in BOOLEAN, f \in FileKinds :
         /\ ok \/ f = NoFiles
         /\ runs' = [runs EXCEPT ![r].files = f, ![r].pc = "Analyzing"]
    /\ isAnalyzing' = TRUE
    /\ UNCHANGED <<selectedPR, sonarResults, aiReview, isGeneratingAI, amConfig,
                   started, decVars, upVars, histVars, extVars>>

AnalyzePRWithoutFinally(r) ==
    /\ runs[r].pc = "Analyzing"
    /\ \E n \in IssueCounts :
         runs' = [runs EXCEPT ![r].issues = n, ![r].pc = "Reviewing"]
    /\ \E ok \in BOOLEAN : isAnalyzing' = ~ok
    /\ sonarResults' = runs[r].pr
    /\ isGeneratingAI' = TRUE
    /\ UNCHANGED <<selectedPR, aiReview, amConfig, started, decVars, upVars, histVars, extVars>>

\* analyzePR returns (finally: isAnalyzing false); mockSonarResults,
\* setSonarResults, setIsGeneratingAI(true), generateAIReview is called.
AnalyzePR(r) ==
    /\ runs[r].pc = "Analyzing"
    /\ \E n \in IssueCounts :
         runs' = [runs EXCEPT ![r].issues = n, ![r].pc = "Reviewing"]
    /\ isAnalyzing' = FALSE
    /\ sonarResults' = runs[r].pr
    /\ isGeneratingAI' = TRUE
    /\ UNCHANGED <<selectedPR, aiReview, amConfig, started, decVars, upVars, histVars, extVars>>

\* generateAIReview returns a review or null; setAIReview, setIsGeneratingAI.
GenerateAIReview(r) ==
    /\ runs[r].pc = "Reviewing"
    /\ \E ok \in BOOLEAN, score \in AIScores :
         /\ runs' = [runs EXCEPT ![r].aiScore = score, ![r].pc = "Deciding"]
         /\ aiReview' = IF ok THEN runs[r].pr ELSE NoPR
    /\ isGeneratingAI' = FALSE
    /\ UNCHANGED <<selectedPR, sonarResults, isAnalyzing, amConfig, started,
                   decVars, upVars, histVars, extVars>>

BaseConfig(cfg) ==
    [enabled |-> cfg.enabled, mode |-> cfg.mode,
     aiThreshold |-> cfg.aiThreshold, sonarThreshold |-> cfg.sonarThreshold]

FinalDecision(run, cfg) ==
    finalWillMerge(BaseConfig(cfg), run.files.hasJava, cfg.requireJUnitForJava,
                   shouldAutoMerge(run.aiScore, run.issues, BaseConfig(cfg)),
                   junitScoreOf(run.files), cfg.junitThreshold)

MergeBranchAlways(run, cfg) == TRUE

\* if (finalWillMerge): merge, otherwise comment.
MergeBranch(run, cfg) == run.final

DecideBeforeReview(r) ==
    /\ runs[r].pc \in {"Reviewing", "Deciding"}
    /\ LET run == [runs[r] EXCEPT !.final = FinalDecision(runs[r], amConfig),
                                  !.files = NoFiles, !.issues = 0, !.aiScore = 0]
       IN runs' = [runs EXCEPT ![r] =
                     [run EXCEPT !.pc = IF MergeBranch(run, amConfig)
                                        THEN "Merging" ELSE "CommentPosting"]]
    /\ UNCHANGED <<selectedPR, sonarResults, aiReview, isAnalyzing, isGeneratingAI,
                   amConfig, started, decVars, upVars, histVars, extVars>>

\* DecisionComputed: the final decision; the steps after it read only the
\* decision.
Decide(r) ==
    /\ runs[r].pc = "Deciding"
    /\ LET run == [runs[r] EXCEPT !.final = FinalDecision(runs[r], amConfig),
                                  !.files = NoFiles, !.issues = 0, !.aiScore = 0]
       IN runs' = [runs EXCEPT ![r] =
                     [run EXCEPT !.pc = IF MergeBranch(run, amConfig)
                                        THEN "Merging" ELSE "CommentPosting"]]
    /\ UNCHANGED <<selectedPR, sonarResults, aiReview, isAnalyzing, isGeneratingAI,
                   amConfig, started, decVars, upVars, histVars, extVars>>

\* Merging: mergePR returns true or false.
MergePR(r) ==
    /\ runs[r].pc = "Merging"
    /\ \E ok \in BOOLEAN :
         runs' = [runs EXCEPT ![r].mergeCalls = @ + 1,
                              ![r].mergeOk = ok,
                              ![r].decision = IF ok THEN "merged" ELSE "merge_failed",
                              ![r].pc = "SavingHistory"]
    /\ UNCHANGED <<selectedPR, sonarResults, aiReview, isAnalyzing, isGeneratingAI,
                   amConfig, started, decVars, upVars, histVars, extVars>>

CommentDecision(run, cfg) ==
    IF ~cfg.enabled THEN "disabled"
    ELSE IF run.final THEN "will_merge" ELSE "will_not_merge"

\* CommentPosting: upsertComment with the review text; its result is not
\* part of the record.
UpsertComment(r) ==
    /\ runs[r].pc = "CommentPosting"
    /\ runs' = [runs EXCEPT ![r].commentCalls = @ + 1,
                            ![r].decision = CommentDecision(runs[r], amConfig),
                            ![r].pc = "SavingHistory"]
    /\ UNCHANGED <<selectedPR, sonarResults, aiReview, isAnalyzing, isGeneratingAI,
                   amConfig, started, decVars, upVars, histVars, extVars>>

\* The record of the run, as far as the run decides it.
DecisionRecord(run) ==
    [decision |-> run.decision]

\* saveHistory(pr, record) -> saveAutoMergeHistory: the insert may fail, the
\* boolean it returns is dropped by saveHistory.  The run's locals end here.
SaveHistory(r) ==
    /\ runs[r].pc = "SavingHistory"
    /\ \E ok \in BOOLEAN :
         /\ dbHistory' = IF ok
                         THEN [dbHistory EXCEPT ![runs[r].pr] =
                                 InsertRow(@, DecisionRecord(runs[r]))]
                         ELSE dbHistory
         /\ runs' = [runs EXCEPT ![r].files = NoFiles, ![r].issues = 0,
                                 ![r].aiScore = 0,
                                 ![r].saveCalls = @ + 1,
                                 ![r].appended = IF ok THEN @ + 1 ELSE @,
                                 ![r].finished = TRUE,
                                 ![r].pc = "Idle"]
    /\ UNCHANGED <<selectedPR, sonarResults, aiReview, isAnalyzing, isGeneratingAI,
                   amConfig, started, lsHistory, hlog, hread, decVars, upVars, extVars>>

InitPipeline ==
    /\ selectedPR = NoPR
    /\ sonarResults = NoPR
    /\ aiReview = NoPR
    /\ isAnalyzing = FALSE
    /\ isGeneratingAI = FALSE
    /\ amConfig \in PipelineConfigs
    /\ runs = [r \in RunIds |-> RunIdle]
    /\ started = 0
    /\ dbHistory = [pr \in HistPRs |-> {}]
    /\ lsHistory = EmptyHistory
    /\ hlog = [pr \in HistPRs |-> <<>>]
    /\ hread = NoRead
    /\ DecOff
    /\ UpOff
    /\ ExtOff

NextPipeline ==
    \/ \E pr \in PRs : HandleSelectPR(pr)
    \/ \E r \in RunIds :
         \/ HandleRunAnalysis(r)
         \/ FetchPRFiles(r)
         \/ AnalyzePR(r)
         \/ GenerateAIReview(r)
         \/ Decide(r)
         \/ MergePR(r)
         \/ UpsertComment(r)
         \/ SaveHistory(r)

SpecPipeline == InitPipeline /\ [][NextPipeline]_vars

(***************************************************************************)
(* Claims about the pipeline run.                                          *)
(***************************************************************************)
\* The run in slot r has taken its merge-or-comment branch.
Branched(r) == runs[r].pc = "SavingHistory" \/ runs[r].finished

\* C8: every pipeline run appends exactly one DecisionRecord to the
\* HistoryStore for its PR, never zero and never two, on every branch,
\* including the runs in which the history write itself fails.
C8_ExactlyOneRecordPerRun ==
    \A r \in RunIds :
        /\ runs[r].appended <= 1
        /\ runs[r].finished => runs[r].appended = 1

MergeableStates == {"clean", "dirty", "unstable", "blocked", "unknown"}

MergeFailureStatuses == {403, 404, 405, 409, 422, 500}

\* What the tests of the code read in error.message: whether it includes
\* 'resource', 'accessible' or 'token', and whether it includes 'merge'.
MessageKinds == [access : BOOLEAN, merge : BOOLEAN]

NoBody == [none |-> TRUE]       \* response.json() failed, or no message field

\* error.message || `Failed to merge: ${response.status}`
MergeMessage(body) == IF body = NoBody THEN [access |-> FALSE, merge |-> TRUE] ELSE body

\* The guidance appended to the message: only for status 403.
DetailedMessage(status, message) ==
    IF status = 403
    THEN IF message.access THEN "token_scope"
         ELSE IF message.merge THEN "branch_protection_checks_conflicts_draft"
         ELSE "none"
    ELSE "none"

\* The responses of the hosting service to PUT .../merge: it merges no PR
\* whose mergeable_state is dirty.
MergeResponses(prState) ==
    {[kind |-> "throw"]}
      \cup (IF prState = "dirty" THEN {} ELSE {[kind |-> "ok"]})
      \cup {[kind |-> "status", status |-> s, body |-> b] :
              s \in MergeFailureStatuses, b \in MessageKinds \cup {NoBody}}

\* mergePR entry: if (!config) return false; otherwise the request is sent.
MergeStart ==
    /\ mergeCall.pc = "Idle"
    /\ \E cfg \in BOOLEAN, pr \in PRs, st \in MergeableStates :
         mergeCall' = [mergeCall EXCEPT !.config = cfg, !.prNumber = pr,
                                        !.prState = st,
                                        !.requests = IF cfg THEN 1 ELSE 0,
                                        !.pc = IF cfg THEN "Requested" ELSE "Returned"]
    /\ UNCHANGED <<decVars, upVars, histVars, pipeVars, conflicts, reviewCall, analyzer, mergeability, filesCall, classified, check, roundTrip>>

mergePRResult(resp) ==
    IF resp.kind = "ok"
    THEN [result |-> TRUE, toast |-> [title |-> "PR Merged"]]
    ELSE IF resp.kind = "status"
    THEN [result |-> FALSE,
          toast |-> [title |-> "Failed to Merge PR",
                     message |-> MergeMessage(resp.body),
                     guidance |-> DetailedMessage(resp.status, MergeMessage(resp.body))]]
    ELSE [result |-> FALSE,
          toast |-> [title |-> "Failed to Merge PR",
                     message |-> [access |-> FALSE, merge |-> FALSE],
                     guidance |-> "none"]]

\* The response arrives; mergePR returns true, or toasts and returns false.
MergeRespond ==
    /\ mergeCall.pc = "Requested"
    /\ \E resp \in MergeResponses(mergeCall.prState) :
         mergeCall' = [mergeCall EXCEPT !.response = resp,
                                        !.result = mergePRResult(resp).result,
                                        !.toast = mergePRResult(resp).toast,
                                        !.pc = "Returned"]
    /\ UNCHANGED <<decVars, upVars, histVars, pipeVars, conflicts, reviewCall, analyzer, mergeability, filesCall, classified, check, roundTrip>>

\* Merging produces decision merged or merge_failed.
MergeDecision(ok) == IF ok THEN "merged" ELSE "merge_failed"

MergeRecord ==
    /\ mergeCall.pc = "Returned"
    /\ mergeCall' = [mergeCall EXCEPT !.decision = MergeDecision(mergeCall.result),
                                      !.pc = "Recorded"]
    /\ UNCHANGED <<decVars, upVars, histVars, pipeVars, conflicts, reviewCall, analyzer, mergeability, filesCall, classified, check, roundTrip>>

InitMerge ==
    /\ DecOff
    /\ UpOff
    /\ HistOff
    /\ PipeOff
    /\ ExtOff

NextMerge == MergeStart \/ MergeRespond \/ MergeRecord

SpecMerge == InitMerge /\ [][NextMerge]_vars

\* What the caller of mergePR can tell about a failure: the returned value is
\* a boolean; the only mention of conflicts is the guidance of the toast.
ConflictClassified(c) ==
    /\ c.result = FALSE
    /\ c.toast # NoToast
    /\ c.toast.guidance = "branch_protection_checks_conflicts_draft"

\* C11: a merge attempt against a PR whose mergeable_state is dirty never
\* yields decision 'merged'; the run records 'merge_failed', and the failure
\* result of mergePR carries the ConflictError classification.
C11_DirtyMergeFailsAsConflict ==
    (mergeCall.prState = "dirty" /\ mergeCall.requests = 1) =>
        /\ mergeCall.decision # "merged"
        /\ mergeCall.pc = "Recorded" =>
             (mergeCall.decision = "merge_failed" /\ ConflictClassified(mergeCall))

\* The part of C11 about the decision alone.
DirtyNeverMerged ==
    (mergeCall.prState = "dirty" /\ mergeCall.pc = "Recorded") =>
        mergeCall.decision = "merge_failed"

\* The mergePR call failed with an HTTP status.
MergeFailedWithStatus ==
    /\ mergeCall.pc \in {"Returned", "Recorded"}
    /\ mergeCall.response # NoResponse
    /\ mergeCall.response.kind = "status"

\* C23: every failed mergePR call attaches to its result a classification
\* derived from the HTTP status and message: every 403 failure carries the
\* token-scope hint, and a failure of a blocked or dirty PR the hint naming
\* branch protection, required checks, conflicts and draft state.
C23_FailureCarriesGuidance ==
    MergeFailedWithStatus =>
        /\ mergeCall.toast # NoToast
        /\ mergeCall.response.status = 403 => mergeCall.toast.guidance = "token_scope"
        /\ (mergeCall.response.status # 403 /\ mergeCall.prState \in {"blocked", "dirty"})
              => mergeCall.toast.guidance = "branch_protection_checks_conflicts_draft"

\* What the code does: failures other than 403 carry no guidance; a 403
\* carries the token-scope hint when its message mentions the resource,
\* access or the token, the combined hint when it mentions merging, and
\* none otherwise; the value returned is false.
GuidanceOnlyFor403 ==
    MergeFailedWithStatus =>
        /\ mergeCall.result = FALSE
        /\ mergeCall.response.status # 403 => mergeCall.toast.guidance = "none"
        /\ mergeCall.response.status = 403 =>
              mergeCall.toast.guidance =
                 (IF mergeCall.toast.message.access THEN "token_scope"
                  ELSE IF mergeCall.toast.message.merge
                       THEN "branch_protection_checks_conflicts_draft"
                       ELSE "none")

\* C12: in every reachable state the displayed quality report and AI review,
\* when present, were produced for the currently selected PR: a result of a
\* run that arrives after another PR was selected is discarded.
C12_NoStaleResultShown ==
    /\ sonarResults # NoPR => sonarResults = selectedPR
    /\ aiReview # NoPR => aiReview = selectedPR

(***************************************************************************)
(* MergeConflictResolver: checkForConflicts, analyzeConflictWithAI and     *)
(* resolveConflict of hooks/useMergeConflict.ts, driven by the handlers    *)
(* and buttons of the MergeConflictDialog.                                 *)
(***************************************************************************)
Filenames == {"a.ts", "b.md"}

Strategies == {"ours", "theirs", "manual", "ai_assisted"}

\* businessLogicExtensions.some(ext => filename.endsWith(ext))
HasBusinessExtension(filename) == filename = "a.ts"

\* A ConflictFile, as far as the dialog reads it: detectBusinessLogic flags
\* no file without a business-logic extension.
ConflictFiles ==
    {f \in [filename : Filenames, hasBusinessLogic : BOOLEAN] :
        f.hasBusinessLogic => HasBusinessExtension(f.filename)}

\* The lists checkForConflicts can produce: a filename occurs at most once.
ConflictFileLists ==
    {l \in SUBSET ConflictFiles :
        \A f \in l, g \in l : f.filename = g.filename => f = g}

\* The text returned by the AI for a conflict: text JSON.parse rejects, or a
\* JSON object with canAutoResolve and recommendation.
Unparsable == [json |-> FALSE]

Analyses ==
    {Unparsable,
     [json |-> TRUE, canAutoResolve |-> FALSE, recommendation |-> "manual"],
     [json |-> TRUE, canAutoResolve |-> TRUE, recommendation |-> "ai_assisted"]}

NoAnalysis == [none |-> TRUE]

\* parseAIAnalysis: the parsed object, or null.
parseAIAnalysis(analysis) == IF analysis.json THEN analysis ELSE NoAnalysis

\* The dialog renders the resolution buttons of a file.
ShowsResolutionActions(file) ==
    /\ file \in conflicts.conflictFiles
    /\ conflicts.aiAnalysis[file.filename] # NoAnalysis
    /\ parseAIAnalysis(conflicts.aiAnalysis[file.filename]) # NoAnalysis
    /\ file.filename \notin conflicts.resolvedFiles

OffersAIResolutionAlways(file, parsed) == parsed.canAutoResolve

\* parsed.canAutoResolve && !file.hasBusinessLogic: Apply AI Resolution,
\* otherwise Keep Ours / Keep Theirs / Apply Manual Resolution.
OffersAIResolution(file, parsed) == parsed.canAutoResolve /\ ~file.hasBusinessLogic

\* The button of the strategy is rendered for the file (Apply Manual
\* Resolution is enabled once the text area has content).
ButtonEnabled(file, strategy) ==
    /\ ShowsResolutionActions(file)
    /\ LET parsed == parseAIAnalysis(conflicts.aiAnalysis[file.filename])
       IN IF OffersAIResolution(file, parsed)
          THEN strategy = "ai_assisted"
          ELSE strategy \in {"ours", "theirs", "manual"}

\* checkForConflicts: setConflictFiles([]) and the requests are sent.
CheckForConflicts ==
    /\ ~conflicts.isCheckingConflicts
    /\ conflicts' = [conflicts EXCEPT !.conflictFiles = {},
                                      !.isCheckingConflicts = TRUE]
    /\ UNCHANGED <<decVars, upVars, histVars, pipeVars, mergeCall, reviewCall, analyzer, mergeability, filesCall, classified, check, roundTrip>>

\* checkForConflicts returns: the file list of a PR with conflicts, or no
\* list (no conflicts, or a request failed).
CheckForConflictsDone ==
    /\ conflicts.isCheckingConflicts
    /\ \E l \in ConflictFileLists :
         conflicts' = [conflicts EXCEPT !.conflictFiles = l,
                                        !.isCheckingConflicts = FALSE]
    /\ UNCHANGED <<decVars, upVars, histVars, pipeVars, mergeCall, reviewCall, analyzer, mergeability, filesCall, classified, check, roundTrip>>

\* Analyze with AI (an API key is configured): handleAnalyzeWithAI up to
\* its await.
HandleAnalyzeWithAI(file) ==
    /\ file \in conflicts.conflictFiles
    /\ file.filename \notin conflicts.resolvedFiles
    /\ conflicts.isAnalyzing # file.filename
    /\ file.filename \notin conflicts.analysing
    /\ conflicts' = [conflicts EXCEPT !.isAnalyzing = file.filename,
                                      !.analysing = @ \cup {file.filename}]
    /\ UNCHANGED <<decVars, upVars, histVars, pipeVars, mergeCall, reviewCall, analyzer, mergeability, filesCall, classified, check, roundTrip>>

\* analyzeConflictWithAI returns the text of the AI, or null on failure.
AnalyzeConflictWithAIDone(name) ==
    /\ name \in conflicts.analysing
    /\ \E a \in Analyses \cup {NoAnalysis} :
         conflicts' = [conflicts EXCEPT
                         !.aiAnalysis = IF a = NoAnalysis THEN @
                                        ELSE [@ EXCEPT ![name] = a],
                         !.isAnalyzing = "",
                         !.analysing = @ \ {name}]
    /\ UNCHANGED <<decVars, upVars, histVars, pipeVars, mergeCall, reviewCall, analyzer, mergeability, filesCall, classified, check, roundTrip>>

\* handleResolve up to its await: the resolution handed to resolveConflict.
HandleResolve(file, strategy) ==
    /\ ButtonEnabled(file, strategy)
    /\ conflicts.resolves < MaxResolves
    /\ conflicts' = [conflicts EXCEPT !.resolves = @ + 1,
                                      !.resolving = @ \cup
                                        {[file |-> file, strategy |-> strategy]}]
    /\ UNCHANGED <<decVars, upVars, histVars, pipeVars, mergeCall, reviewCall, analyzer, mergeability, filesCall, classified, check, roundTrip>>

\* The row resolveConflict inserts into merge_conflict_resolutions; file is
\* the ConflictFile the resolution was made for.
ResolutionRow(req) ==
    [file_path |-> req.file.filename, resolution_strategy |-> req.strategy,
     has_business_logic |-> FALSE, status |-> "resolved", file |-> req.file]

\* The value resolveConflict returns: false when the insert gave an error
\* or threw.
resolveConflict(inserted) == inserted

MarkResolvedAlways(resolved, filename, success) == resolved \cup {filename}

\* if (success) setResolvedFiles(prev => new Set([...prev, file.filename]))
MarkResolved(resolved, filename, success) ==
    IF success THEN resolved \cup {filename} ELSE resolved

\* resolveConflict returns: the row is inserted and the file marked
\* resolved, or the insert failed.
ResolveConflictDone(req) ==
    /\ req \in conflicts.resolving
    /\ \E ok \in BOOLEAN :
         conflicts' = [conflicts EXCEPT
                         !.resolving = @ \ {req},
                         !.resolutions = IF ok THEN @ \cup {ResolutionRow(req)} ELSE @,
                         !.resolvedFiles = MarkResolved(@, req.file.filename,
                                                        resolveConflict(ok))]
    /\ UNCHANGED <<decVars, upVars, histVars, pipeVars, mergeCall, reviewCall, analyzer, mergeability, filesCall, classified, check, roundTrip>>

InitResolver ==
    /\ DecOff
    /\ UpOff
    /\ HistOff
    /\ PipeOff
    /\ ExtOff

NextResolver ==
    \/ CheckForConflicts
    \/ CheckForConflictsDone
    \/ \E file \in ConflictFiles : HandleAnalyzeWithAI(file)
    \/ \E name \in Filenames : AnalyzeConflictWithAIDone(name)
    \/ \E file \in ConflictFiles, strategy \in Strategies : HandleResolve(file, strategy)
    \/ \E req \in conflicts.resolving : ResolveConflictDone(req)

SpecResolver == InitResolver /\ [][NextResolver]_vars

\* C13: no ConflictResolution is persisted, and no file is marked resolved,
\* with strategy ai_assisted for a file flagged hasBusinessLogic = true,
\* whatever the AI analysis recommended and whatever sequence of analyze and
\* resolve actions is performed.
C13_NoAIResolutionOfBusinessLogic ==
    /\ \A row \in conflicts.resolutions :
         row.file.hasBusinessLogic => row.resolution_strategy # "ai_assisted"
    /\ \A req \in conflicts.resolving :
         req.file.hasBusinessLogic => req.strategy # "ai_assisted"

\* A business-logic file whose analysis recommends ai_assisted with
\* canAutoResolve was resolved, and another file was resolved by ai_assisted.
C13_Witness ==
    /\ \E row \in conflicts.resolutions :
         /\ row.file.hasBusinessLogic
         /\ conflicts.aiAnalysis[row.file_path] # NoAnalysis
         /\ conflicts.aiAnalysis[row.file_path].json
         /\ conflicts.aiAnalysis[row.file_path].canAutoResolve
         /\ conflicts.aiAnalysis[row.file_path].recommendation = "ai_assisted"
    /\ \E row \in conflicts.resolutions :
         ~row.file.hasBusinessLogic /\ row.resolution_strategy = "ai_assisted"

\* A resolve call returned in this step and its insert failed.
ResolveFailedStep ==
    /\ conflicts'.resolving # conflicts.resolving
    /\ conflicts'.resolving \subseteq conflicts.resolving
    /\ conflicts'.resolutions = conflicts.resolutions

\* A resolve call for the file returned in this step and its row was
\* inserted.
ResolveSucceededStep(name) ==
    \E req \in conflicts.resolving :
        /\ req.file.filename = name
        /\ conflicts'.resolving = conflicts.resolving \ {req}
        /\ ResolutionRow(req) \in conflicts'.resolutions

\* C24: per conflict file the only transition is unresolved -> resolved,
\* taken exactly when a resolve call for it succeeds: a resolved file stays
\* resolved through any later analyze or resolve action on any file, and a
\* resolve call whose persistence fails leaves the state of every file
\* unchanged.
C24_ResolvedStaysResolved ==
    [][/\ conflicts.resolvedFiles \subseteq conflicts'.resolvedFiles
       /\ \A name \in Filenames :
             (name \notin conflicts.resolvedFiles /\ name \in conflicts'.resolvedFiles)
                => ResolveSucceededStep(name)
       /\ \A name \in Filenames :
             (name \notin conflicts.resolvedFiles /\ ResolveSucceededStep(name))
                => name \in conflicts'.resolvedFiles
       /\ ResolveFailedStep => conflicts'.resolvedFiles = conflicts.resolvedFiles]_vars

\* One resolve call succeeded and another failed: one file is resolved, one
\* row exists, and no call is pending.
C24_Witness ==
    /\ conflicts.resolvedFiles = {"a.ts"}
    /\ conflicts.resolves >= 2
    /\ conflicts.resolving = {}
    /\ \A row \in conflicts.resolutions : row.file_path = "a.ts"
    /\ Cardinality(conflicts.resolutions) = 1

(***************************************************************************)
(* AIReviewEngine: generateReview and parseAIResponse (hooks/useAIReview). *)
(***************************************************************************)
DefaultScore == 70
SummaryLimit == 500
GivenScore == 85            \* a score given by the AI
Absent == -1                \* a field the answer does not have (undefined)

CategoryNames ==
    {"codeQuality", "security", "performance", "maintainability", "testability"}

\* JSON objects the AI may answer with, by the fields parseAIResponse reads:
\* categories "partial" gives only codeQuality; suggestions "notlist" is a
\* value without a map method.
ReviewObjects ==
    [json : {"object"}, summary : BOOLEAN, overallScore : {Absent, 0, GivenScore},
     categories : {"absent", "partial", "full"},
     suggestions : {"absent", "list", "notlist"}]

\* A piece of text, by what JSON.parse makes of it after trim().
Contents ==
    {[json |-> "empty"], [json |-> "text"], [json |-> "malformed"],
     [json |-> "null"], [json |-> "scalar"]} \cup ReviewObjects

\* The text returned by callAIProvider: its length, whether it holds a
\* ```json or plain ``` fenced block, and the content (of the block when
\* there is one, of the whole text otherwise).
Responses ==
    {r \in [fence : {"none", "json", "plain"}, content : Contents,
            len : {0, 1, SummaryLimit - 1, SummaryLimit, SummaryLimit + 1}] :
        /\ r.len = 0 => (r.fence = "none" /\ r.content.json = "empty")
        /\ r.fence # "none" => r.len >= SummaryLimit - 1
        /\ r.content.json = "object" => r.len >= SummaryLimit - 1}

\* jsonMatch[1] || response: the block of the first fence, or the whole text
\* when there is no fence or the block is empty; text around a fence is no
\* JSON.
jsonStr(response) ==
    IF response.fence # "none" /\ response.content.json # "empty"
    THEN response.content
    ELSE IF response.fence = "none" THEN response.content ELSE [json |-> "text"]

\* JSON.parse(jsonStr.trim()) throws.
JSONParseThrows(content) == content.json \in {"empty", "text", "malformed"}

\* response.slice(0, 500)
Excerpt(response) ==
    [excerptLen |-> IF response.len < SummaryLimit THEN response.len ELSE SummaryLimit]

FallbackReviewZero(response) ==
    [summary |-> Excerpt(response), suggestions |-> "none", overallScore |-> 0,
     categories |-> [c \in CategoryNames |-> 0]]

\* The catch branch of parseAIResponse.
FallbackReview(response) ==
    [summary |-> Excerpt(response), suggestions |-> "none",
     overallScore |-> DefaultScore,
     categories |-> [c \in CategoryNames |-> DefaultScore]]

\* Reading a property of the parsed value throws a TypeError.
ReadThrows(parsed) ==
    \/ parsed.json = "null"
    \/ parsed.json = "object" /\ parsed.suggestions = "notlist"

\* x || 70
OrDefault(x) == IF x = Absent \/ x = 0 THEN DefaultScore ELSE x

CategoryOf(parsed, c) ==
    IF parsed.json # "object" \/ parsed.categories = "absent" THEN Absent
    ELSE IF parsed.categories = "full" \/ c = "codeQuality" THEN GivenScore
    ELSE Absent

\* The try branch of parseAIResponse.
ParsedReview(parsed) ==
    [summary |-> IF parsed.json = "object" /\ parsed.summary
                 THEN [given |-> TRUE] ELSE [completed |-> TRUE],
     suggestions |-> IF parsed.json = "object" /\ parsed.suggestions = "list"
                     THEN "some" ELSE "none",
     overallScore |-> OrDefault(IF parsed.json = "object"
                                THEN parsed.overallScore ELSE Absent),
     categories |-> [c \in CategoryNames |-> OrDefault(CategoryOf(parsed, c))]]

parseAIResponse(response) ==
    IF JSONParseThrows(jsonStr(response)) \/ ReadThrows(jsonStr(response))
    THEN FallbackReview(response)
    ELSE ParsedReview(jsonStr(response))

\* generateReview entry: without an API key it toasts and returns null.
GenerateReview ==
    /\ reviewCall.pc = "Idle"
    /\ \E key \in BOOLEAN :
         reviewCall' = [reviewCall EXCEPT !.apiKey = key,
                                          !.isGenerating = key,
                                          !.pc = IF key THEN "Calling" ELSE "Returned"]
    /\ UNCHANGED <<decVars, upVars, histVars, pipeVars, mergeCall, conflicts, analyzer, mergeability, filesCall, classified, check, roundTrip>>

\* callAIProvider throws (unsupported provider, network error, status not
\* ok, body not JSON): caught, toast, return null.
CallAIProviderFails ==
    /\ reviewCall.pc = "Calling"
    /\ reviewCall' = [reviewCall EXCEPT !.failed = TRUE, !.isGenerating = FALSE,
                                        !.pc = "Returned"]
    /\ UNCHANGED <<decVars, upVars, histVars, pipeVars, mergeCall, conflicts, analyzer, mergeability, filesCall, classified, check, roundTrip>>

\* callAIProvider returns text: parseAIResponse, toast, return the review.
CallAIProviderReturns ==
    /\ reviewCall.pc = "Calling"
    /\ \E r \in Responses :
         reviewCall' = [reviewCall EXCEPT !.response = r,
                                          !.result = parseAIResponse(r),
                                          !.isGenerating = FALSE,
                                          !.pc = "Returned"]
    /\ UNCHANGED <<decVars, upVars, histVars, pipeVars, mergeCall, conflicts, analyzer, mergeability, filesCall, classified, check, roundTrip>>

InitReview ==
    /\ DecOff
    /\ UpOff
    /\ HistOff
    /\ PipeOff
    /\ ExtOff

NextReview == GenerateReview \/ CallAIProviderFails \/ CallAIProviderReturns

SpecReview == InitReview /\ [][NextReview]_vars

\* The AI answered with text that cannot be parsed: JSON.parse rejects the
\* text it is given.
GotUnparsableText ==
    /\ reviewCall.pc = "Returned"
    /\ reviewCall.response # NoResponse
    /\ JSONParseThrows(jsonStr(reviewCall.response))

\* C14: for every AI output that cannot be parsed (non-JSON text, malformed
\* JSON inside or outside a fenced block, empty text) the review has
\* overallScore 70, all five category scores 70, no suggestion and a summary
\* that is the excerpt of the raw text truncated to 500 characters; no error
\* is surfaced.
C14_UnparsableGivesDefaultScores ==
    GotUnparsableText =>
        /\ ~reviewCall.failed
        /\ reviewCall.result # NoReview
        /\ reviewCall.result.overallScore = DefaultScore
        /\ \A c \in CategoryNames : reviewCall.result.categories[c] = DefaultScore
        /\ reviewCall.result.suggestions = "none"
        /\ reviewCall.result.summary = Excerpt(reviewCall.response)
        /\ reviewCall.result.summary.excerptLen <= SummaryLimit
        /\ reviewCall.result.summary.excerptLen <= reviewCall.response.len

\* Malformed JSON inside a fenced block of a text longer than the limit.
C14_Witness ==
    /\ GotUnparsableText
    /\ reviewCall.response.fence = "json"
    /\ reviewCall.response.content.json = "malformed"
    /\ reviewCall.response.len > SummaryLimit
    /\ reviewCall.result.summary.excerptLen = SummaryLimit

(***************************************************************************)
(* QualityAnalyzer: mockSonarResults of hooks/useCodeReview.ts.  Every     *)
(* metric is drawn with Math.random(); a draw is modelled in tenths.       *)
(***************************************************************************)
\* Values of Math.random(), in tenths: one low and one high draw.
Randoms == {0, 9}

\* Math.floor(Math.random() * n)
FloorOf(r, n) == (r * n) \div 10

\* The PullRequest objects handed to the analyzer: number and size stats.
PullRequests ==
    {[number |-> 1, additions |-> 10, deletions |-> 2, changedFiles |-> 1],
     [number |-> 2, additions |-> 50, deletions |-> 7, changedFiles |-> 3]}

DEFAULT_THRESHOLDS ==
    [bugs |-> 0, vulnerabilities |-> 0, codeSmells |-> 10, securityHotspots |-> 0,
     coverageMin |-> 80, duplicatedLinesMax |-> 3, blockerIssues |-> 0,
     criticalIssues |-> 0]

\* Thresholds saved by the user: the coverage minimum lowered to the lowest
\* coverage the analyzer produces.
SavedThresholds == [DEFAULT_THRESHOLDS EXCEPT !.coverageMin = 70]

ThresholdConfigs == {DEFAULT_THRESHOLDS, SavedThresholds}

\* The draws of one mockSonarResults call that reach a check: any
\* combination with at most MaxHighDraws draws above the lowest value.
Draws ==
    {d \in [bugs : Randoms, vulnerabilities : Randoms, codeSmells : Randoms,
            coverage : Randoms, duplicatedLines : Randoms,
            securityHotspots : Randoms, blocker : Randoms, critical : Randoms] :
        Cardinality({n \in DOMAIN d : d[n] # 0}) <= MaxHighDraws}

\* The names of the checks a report carries.
HeaderMetrics ==
    {"bugs", "vulnerabilities", "codeSmells", "coverage", "duplicatedLinesDensity",
     "securityHotspots"}

SeverityBuckets == {"blocker", "critical"}

\* The metric values; coverage and duplication are in tenths of a percent.
MetricValues(rnd) ==
    [bugs |-> FloorOf(rnd.bugs, 5),
     vulnerabilities |-> FloorOf(rnd.vulnerabilities, 3),
     codeSmells |-> FloorOf(rnd.codeSmells, 20),
     coverage |-> 700 + rnd.coverage * 25,
     duplicatedLinesDensity |-> rnd.duplicatedLines * 5,
     securityHotspots |-> FloorOf(rnd.securityHotspots, 4)]

\* if (x > thresholds.x) violations.push(...): the five tests that push.
Violations(v, thresholds) ==
    {n \in {"bugs"} : v.bugs > thresholds.bugs}
      \cup {n \in {"vulnerabilities"} : v.vulnerabilities > thresholds.vulnerabilities}
      \cup {n \in {"codeSmells"} : v.codeSmells > thresholds.codeSmells}
      \cup {n \in {"coverage"} : v.coverage < thresholds.coverageMin * 10}
      \cup {n \in {"duplicatedLinesDensity"} :
              v.duplicatedLinesDensity > thresholds.duplicatedLinesMax * 10}

\* metrics.*.exceeded
MetricExceeded(v, thresholds) ==
    [bugs |-> v.bugs > thresholds.bugs,
     vulnerabilities |-> v.vulnerabilities > thresholds.vulnerabilities,
     codeSmells |-> v.codeSmells > thresholds.codeSmells,
     coverage |-> v.coverage < thresholds.coverageMin * 10,
     duplicatedLinesDensity |->
         v.duplicatedLinesDensity > thresholds.duplicatedLinesMax * 10,
     securityHotspots |-> v.securityHotspots > thresholds.securityHotspots]

\* issuesSummary.bySeverity.blocker / critical
SeverityCounts(rnd) ==
    [blocker |-> FloorOf(rnd.blocker, 2), critical |-> FloorOf(rnd.critical, 3)]

SeverityExceeded(c, thresholds) ==
    [blocker |-> c.blocker > thresholds.blockerIssues,
     critical |-> c.critical > thresholds.criticalIssues]

\* The SonarQubeResults object, for the draws rnd of the call.
mockSonarResults(pr, thresholds, rnd) ==
    LET v == MetricValues(rnd)
        c == SeverityCounts(rnd)
        violations == Violations(v, thresholds)
    IN [pullRequest |-> pr.number,
        qualityGate |-> IF violations # {} THEN "ERROR" ELSE "OK",
        values |-> v,
        exceeded |-> MetricExceeded(v, thresholds),
        bySeverity |-> c,
        severityExceeded |-> SeverityExceeded(c, thresholds),
        thresholdCheck |-> [exceeded |-> violations # {}, violations |-> violations]]

\* One analysis: the report of the call is kept as the last one, and the
\* first call of all is remembered with its inputs and header values.
MockSonarResults ==
    \E pr \in PullRequests, thresholds \in ThresholdConfigs, rnd \in Draws :
        LET report == mockSonarResults(pr, thresholds, rnd)
        IN /\ analyzer' =
                [first |-> IF analyzer.first = NoReport
                           THEN [pr |-> pr, thresholds |-> thresholds,
                                 values |-> report.values]
                           ELSE analyzer.first,
                 last |-> [pr |-> pr, thresholds |-> thresholds, report |-> report]]
           /\ UNCHANGED <<decVars, upVars, histVars, pipeVars, mergeCall, conflicts,
                          reviewCall, mergeability, filesCall, classified, check, roundTrip>>

InitAnalyzer ==
    /\ DecOff
    /\ UpOff
    /\ HistOff
    /\ PipeOff
    /\ ExtOff

NextAnalyzer == MockSonarResults

SpecAnalyzer == InitAnalyzer /\ [][NextAnalyzer]_vars

\* C15: two analyze calls with identical (additions, deletions, changedFiles,
\* prNumber) and thresholds yield identical bug, vulnerability, code-smell,
\* coverage, duplication and security-hotspot values, whenever they run and
\* whatever ran in between.
C15_HeaderMetricsDeterministic ==
    (/\ analyzer.first # NoReport
     /\ analyzer.last.pr = analyzer.first.pr
     /\ analyzer.last.thresholds = analyzer.first.thresholds)
        => \A n \in HeaderMetrics :
             analyzer.last.report.values[n] = analyzer.first.values[n]

\* Some check of the last report is marked exceeded.
SomeCheckExceeded ==
    \/ \E n \in HeaderMetrics : analyzer.last.report.exceeded[n]
    \/ \E b \in SeverityBuckets : analyzer.last.report.severityExceeded[b]

\* C20: in every report the aggregate gate status is ERROR if and only if at
\* least one check is marked exceeded, over bugs, vulnerabilities, code
\* smells, coverage, duplication, security hotspots and the blocker and
\* critical severity buckets; it is OK exactly when no check is exceeded.
C20_GateErrorIffSomeCheckExceeded ==
    analyzer.last # NoReport =>
        /\ analyzer.last.report.qualityGate \in {"OK", "ERROR"}
        /\ analyzer.last.report.qualityGate = "ERROR" <=> SomeCheckExceeded

\* The direction of C20 the code keeps: a gate in ERROR has an exceeded
\* check, and the gate agrees with thresholdCheck.exceeded.
GateErrorHasExceededCheck ==
    analyzer.last # NoReport =>
        /\ analyzer.last.report.qualityGate = "ERROR" => SomeCheckExceeded
        /\ analyzer.last.report.thresholdCheck.exceeded
             <=> analyzer.last.report.qualityGate = "ERROR"

(***************************************************************************)
(* getMergeabilityStatus (hooks/useMergeConflict.ts): one GET of the PR,   *)
(* and the MergeabilityStatus built from its mergeable and mergeable_state.*)
(***************************************************************************)
\* pr.mergeable in the body: true, false, null, or no such field.
MergeableValues == {"true", "false", "null", "absent"}

\* pr.mergeable_state: a state, the empty string, or no such field.
MergeableStateValues == MergeableStates \cup {"", "absent"}

\* pr.behind_by / pr.ahead_by: a count, or Absent.
CountValues == {Absent, 0, 2}

\* What the GET can do: fetch or response.json() rejects, the status is not
\* ok, the body is JSON null, or the body is a PR object.
MergeabilityResponses ==
    {[kind |-> "throw"], [kind |-> "status"], [kind |-> "nullbody"]}
      \cup [kind : {"ok"}, mergeable : MergeableValues,
            mergeable_state : MergeableStateValues, behind_by : CountValues]

MergeableStateAsReported(pr) == pr.mergeable_state

\* pr.mergeable_state || 'unknown'
MergeableStateOf(pr) ==
    IF pr.mergeable_state \in {"", "absent"} THEN "unknown" ELSE pr.mergeable_state

\* pr.mergeable ?? null
MergeableOf(pr) == IF pr.mergeable = "absent" THEN "null" ELSE pr.mergeable

\* The two pushes to blockedBy, in the order of the code.
BlockedBy(mergeableState) ==
    (IF mergeableState = "blocked"
     THEN <<"Branch protection rules require status checks or reviews">> ELSE <<>>)
      \o (IF mergeableState = "dirty" THEN <<"Merge conflicts detected">> ELSE <<>>)

\* The value getMergeabilityStatus returns for a response.
getMergeabilityStatus(resp) ==
    IF resp.kind # "ok"
    THEN NoStatus
    ELSE [mergeable |-> MergeableOf(resp) = "true",
          mergeableState |-> MergeableStateOf(resp),
          hasConflicts |-> MergeableStateOf(resp) = "dirty",
          blockedBy |-> BlockedBy(MergeableStateOf(resp)),
          behindBy |-> IF resp.behind_by = Absent THEN 0 ELSE resp.behind_by]

\* getMergeabilityStatus is called (again, when the caller polls): the GET
\* is sent.
GetMergeabilityStatus ==
    /\ mergeability.pc \in {"Idle", "Returned"}
    /\ \E n \in PRs :
         mergeability' = [pc |-> "Requested", prNumber |-> n,
                          response |-> NoResponse, result |-> NoStatus]
    /\ UNCHANGED <<decVars, upVars, histVars, pipeVars, mergeCall, conflicts,
                   reviewCall, analyzer, filesCall, classified, check, roundTrip>>

\* The response arrives and getMergeabilityStatus returns.
GetMergeabilityStatusDone ==
    /\ mergeability.pc = "Requested"
    /\ \E resp \in MergeabilityResponses :
         mergeability' = [mergeability EXCEPT !.response = resp,
                                              !.result = getMergeabilityStatus(resp),
                                              !.pc = "Returned"]
    /\ UNCHANGED <<decVars, upVars, histVars, pipeVars, mergeCall, conflicts,
                   reviewCall, analyzer, filesCall, classified, check, roundTrip>>

InitMergeability ==
    /\ DecOff
    /\ UpOff
    /\ HistOff
    /\ PipeOff
    /\ ExtOff

NextMergeability == GetMergeabilityStatus \/ GetMergeabilityStatusDone

SpecMergeability == InitMergeability /\ [][NextMergeability]_vars

\* The call returned for a PR object sent by the hosting service.
ReturnedForPR ==
    /\ mergeability.pc = "Returned"
    /\ mergeability.response.kind = "ok"

\* The status of a PR whose mergeability is not computed.
IsUnknownStatus(status) ==
    /\ status # NoStatus
    /\ status.mergeableState = "unknown"
    /\ ~status.mergeable
    /\ ~status.hasConflicts
    /\ status.blockedBy = <<>>

\* C17 as stated: when mergeable is null and/or mergeable_state is absent,
\* the call returns a status with state 'unknown', mergeable false,
\* hasConflicts false and an empty blockedBy; it returns no error sentinel.
C17_NullOrAbsentGivesUnknown ==
    (/\ ReturnedForPR
     /\ \/ mergeability.response.mergeable \in {"null", "absent"}
        \/ mergeability.response.mergeable_state = "absent")
        => IsUnknownStatus(mergeability.result)

\* C17, amended: when mergeable is null and mergeable_state is absent, empty
\* or 'unknown', the call returns the unknown status above; for any PR
\* object it returns a status and not the sentinel, mergeable is true only
\* when the service said true, and an absent mergeable_state alone gives
\* state 'unknown' with no conflicts and an empty blockedBy.
C17_NotComputedGivesUnknown ==
    ReturnedForPR =>
        /\ mergeability.result # NoStatus
        /\ (/\ mergeability.response.mergeable \in {"null", "absent"}
            /\ mergeability.response.mergeable_state \in {"", "absent", "unknown"})
              => IsUnknownStatus(mergeability.result)
        /\ mergeability.response.mergeable \in {"null", "absent"}
              => ~mergeability.result.mergeable
        /\ mergeability.response.mergeable_state \in {"", "absent"}
              => /\ mergeability.result.mergeableState = "unknown"
                 /\ ~mergeability.result.hasConflicts
                 /\ mergeability.result.blockedBy = <<>>

\* A call answered with mergeable null and no mergeable_state.
C17_Witness ==
    /\ ReturnedForPR
    /\ mergeability.response.mergeable = "null"
    /\ mergeability.response.mergeable_state = "absent"
    /\ IsUnknownStatus(mergeability.result)

(***************************************************************************)
(* RepositoryClient.fetchPRFiles (hooks/useGitHub.ts): one githubFetch of  *)
(* the file list, mapped to PRFile objects.                                *)
(***************************************************************************)
\* A file object of the hosting API; sha stands for the fields PRFile drops.
ApiFiles ==
    [filename : {"A.java"}, status : {"modified", "added"}, additions : {1},
     deletions : {0}, patch : {"@@"}, sha : {"abc"}]

ApiFileLists == {<<>>} \cup {<<f>> : f \in ApiFiles} \cup {<<f, f>> : f \in ApiFiles}

\* Statuses of a failed request: auth, permission, not found, rate limit,
\* server error.
FailureStatuses == {401, 403, 404, 429, 500}

\* What githubFetch can do: fetch rejects, the status is not ok (it throws),
\* or it returns the parsed body, a list of files or something else.
FilesResponses ==
    {[kind |-> "throw"], [kind |-> "notlist"]}
      \cup [kind : {"status"}, status : FailureStatuses]
      \cup [kind : {"ok"}, files : ApiFileLists]

\* files.map(f => ({filename, status, additions, deletions, patch}))
PRFileOf(f) ==
    [filename |-> f.filename, status |-> f.status, additions |-> f.additions,
     deletions |-> f.deletions, patch |-> f.patch]

fetchPRFilesUncaught(resp) ==
    IF resp.kind = "ok"
    THEN [i \in 1..Len(resp.files) |-> PRFileOf(resp.files[i])]
    ELSE <<[threw |-> TRUE]>>

\* The value fetchPRFiles returns for a response: the catch returns [].
fetchPRFiles(resp) ==
    IF resp.kind = "ok"
    THEN [i \in 1..Len(resp.files) |-> PRFileOf(resp.files[i])]
    ELSE <<>>

\* fetchPRFiles entry: if (!config) return []; otherwise the request is sent.
FetchPRFilesCall ==
    /\ filesCall.pc = "Idle"
    /\ \E cfg \in BOOLEAN, n \in PRs :
         filesCall' = [filesCall EXCEPT !.config = cfg, !.prNumber = n,
                                        !.pc = IF cfg THEN "Requested" ELSE "Returned"]
    /\ UNCHANGED <<decVars, upVars, histVars, pipeVars, mergeCall, conflicts,
                   reviewCall, analyzer, mergeability, classified, check, roundTrip>>

\* The response arrives and fetchPRFiles returns.
FetchPRFilesReturn ==
    /\ filesCall.pc = "Requested"
    /\ \E resp \in FilesResponses :
         filesCall' = [filesCall EXCEPT !.response = resp,
                                        !.result = fetchPRFiles(resp),
                                        !.pc = "Returned"]
    /\ UNCHANGED <<decVars, upVars, histVars, pipeVars, mergeCall, conflicts,
                   reviewCall, analyzer, mergeability, classified, check, roundTrip>>

NextFiles == FetchPRFilesCall \/ FetchPRFilesReturn

(***************************************************************************)
(* The operations a pipeline run calls, one at a time: fetchPRFiles,       *)
(* generateReview, getMergeabilityStatus, mergePR and postPRComment; the   *)
(* caller takes the returned value and goes on to the next call.           *)
(***************************************************************************)
FilesQuiet == filesCall = FilesIdle

ReviewQuiet == reviewCall = ReviewIdle

MergeabilityQuiet == mergeability = MergeabilityIdle

MergeQuiet == mergeCall = MergeIdle

CommentQuiet == up[1] = UIdle

\* Some operation has returned to the caller.
SomeReturned ==
    \/ filesCall.pc = "Returned"
    \/ reviewCall.pc = "Returned"
    \/ mergeability.pc = "Returned"
    \/ mergeCall.pc \in {"Returned", "Recorded"}
    \/ up[1].pc = "idle" /\ up[1].result # "none"

\* The caller has the returned value and goes on.
CallerContinues ==
    /\ SomeReturned
    /\ filesCall' = FilesIdle
    /\ reviewCall' = ReviewIdle
    /\ mergeability' = MergeabilityIdle
    /\ mergeCall' = MergeIdle
    /\ up' = [up EXCEPT ![1] = UIdle]
    /\ UNCHANGED <<decVars, comments, commentIdStore, calls, allOk, histVars,
                   pipeVars, conflicts, analyzer, classified, check, roundTrip>>

InitCalls == InitUpsert

NextCalls ==
    \/ ReviewQuiet /\ MergeabilityQuiet /\ MergeQuiet /\ CommentQuiet /\ NextFiles
    \/ FilesQuiet /\ MergeabilityQuiet /\ MergeQuiet /\ CommentQuiet /\ NextReview
    \/ FilesQuiet /\ ReviewQuiet /\ MergeQuiet /\ CommentQuiet /\ NextMergeability
    \/ FilesQuiet /\ ReviewQuiet /\ MergeabilityQuiet /\ CommentQuiet /\ NextMerge
    \/ FilesQuiet /\ ReviewQuiet /\ MergeabilityQuiet /\ MergeQuiet /\ postPRComment(1)
    \/ CallerContinues

SpecCalls == InitCalls /\ [][NextCalls]_vars

\* The comment of the returned postPRComment call was written.
CommentWritten(u) == \E c \in comments : c.marker /\ c.text = u.body

\* C19: a failure of a hosting-API or AI-provider call made by fetchPRFiles,
\* postPRComment, mergePR, getMergeabilityStatus or generateReview ends
\* inside the operation: the operation returns, and what it returns for a
\* failed call is its sentinel, the empty list, false or null.
C19_FailuresReturnSentinel ==
    /\ filesCall.pc \in {"Idle", "Requested", "Returned"}
    /\ (filesCall.pc = "Returned" /\ filesCall.response # NoResponse
          /\ filesCall.response.kind # "ok") => filesCall.result = <<>>
    /\ (filesCall.pc = "Returned" /\ ~filesCall.config) => filesCall.result = <<>>
    /\ reviewCall.pc \in {"Idle", "Calling", "Returned"}
    /\ (reviewCall.pc = "Returned" /\ (reviewCall.failed \/ ~reviewCall.apiKey))
          => reviewCall.result = NoReview
    /\ mergeability.pc \in {"Idle", "Requested", "Returned"}
    /\ (mergeability.pc = "Returned" /\ mergeability.response.kind # "ok")
          => mergeability.result = NoStatus
    /\ mergeCall.pc \in {"Idle", "Requested", "Returned", "Recorded"}
    /\ (mergeCall.pc \in {"Returned", "Recorded"}
          /\ mergeCall.toast.title # "PR Merged") => mergeCall.result = FALSE
    /\ \A p \in DOMAIN up :
          /\ up[p].result \in {"none", "true", "false"}
          /\ (up[p].pc = "idle" /\ up[p].result # "none" /\ ~CommentWritten(up[p]))
                => up[p].result = "false"

\* mergePR returned false after its request was rejected by the network,
\* in a behaviour in which a step of an earlier postPRComment call failed.
C19_Witness ==
    /\ mergeCall.pc = "Returned"
    /\ mergeCall.requests = 1
    /\ mergeCall.toast.title = "Failed to Merge PR"
    /\ mergeCall.result = FALSE
    /\ calls > 0
    /\ ~allOk

\* The run in slot r has started and not finished all of its steps.
InFlight(r) == runs[r].pc # "Idle" /\ ~runs[r].finished

\* C16: for any one PR at most one pipeline run is in flight at any time: a
\* second run for the same PR starts only after the previous run for that PR
\* has finished all of its steps.
C16_OneRunPerPR ==
    \A r \in RunIds, q \in RunIds :
        (r # q /\ InFlight(r) /\ InFlight(q)) => runs[r].pr # runs[q].pr

\* The part of C16 the button gives: no run starts while analyzePR of
\* another run is in progress.
NoStartWhileAnalyzing == [][isAnalyzing => started' = started]_vars

(***************************************************************************)
(* detectBusinessLogic (hooks/useMergeConflict.ts).  A filename is the     *)
(* sequence of its dot-separated parts, each suffix with its dot; a patch  *)
(* is the sequence of its tokens: words, "ws" for a run of whitespace,     *)
(* and punctuation.                                                        *)
(***************************************************************************)
businessLogicExtensions == {".ts", ".tsx", ".js", ".jsx", ".java", ".py", ".cs", ".go"}

SampleFilenames ==
    {<<"Calculator", ".java">>, <<"README", ".md">>, <<"notes", ".java", ".md">>,
     <<"types", ".d", ".ts">>, <<"Makefile">>, <<"main", ".go">>}

\* filename.endsWith(ext)
endsWith(filename, ext) == Len(filename) > 0 /\ filename[Len(filename)] = ext

hasBusinessExtension(filename) ==
    \E ext \in businessLogicExtensions : endsWith(filename, ext)

\* \w+ : a word of the patch.
PatchWords ==
    {"function", "class", "const", "async", "export", "default", "interface",
     "type", "Calculator"}

PatchTokens == PatchWords \cup {"ws", "=", "=>", "(", ")", "{"}

\* The tokens of the patches enumerated in full.
ShortTokens == {"class", "type", "Calculator", "ws", "=", "=>"}

RECURSIVE TokenSeqs(_)
TokenSeqs(n) ==
    IF n = 0 THEN {<<>>}
    ELSE LET shorter == TokenSeqs(n - 1)
         IN shorter \cup {Append(s, t) : s \in {x \in shorter : Len(x) = n - 1},
                                         t \in ShortTokens}

\* A run of whitespace is one token.
WellFormed(p) == \A i \in 1..(Len(p) - 1) : ~(p[i] = "ws" /\ p[i + 1] = "ws")

LongPatches ==
    {<<"function", "ws", "Calculator", "(", ")", "ws", "{">>,
     <<"export", "ws", "default", "ws", "function", "(", ")">>,
     <<"export", "ws", "function">>,
     <<"async", "ws", "function">>,
     <<"const", "ws", "Calculator", "ws", "=", "ws", "(", "Calculator", ")", "ws", "=>", "ws", "{">>,
     <<"const", "ws", "Calculator", "=", "(", ")", "=>">>,
     <<"const", "ws", "Calculator", "ws", "=", "ws", "Calculator">>,
     <<"interface", "ws", "Calculator", "ws", "{">>,
     <<"export", "ws", "class", "ws", "Calculator", "ws", "{">>,
     <<"function", "(", ")">>,
     <<"export", "ws", "default", "ws", "{">>}

Patches == {p \in TokenSeqs(MaxPatchLen) : WellFormed(p)} \cup LongPatches

Tok(p, i, t) == i >= 1 /\ i <= Len(p) /\ p[i] = t

Word(p, i) == i >= 1 /\ i <= Len(p) /\ p[i] \in PatchWords

\* \s* at position i: the position after optional whitespace.
SkipWs(p, i) == IF Tok(p, i, "ws") THEN i + 1 ELSE i

\* /function\s+\w+/
FunctionPattern(p) ==
    \E i \in 1..Len(p) : Tok(p, i, "function") /\ Tok(p, i + 1, "ws") /\ Word(p, i + 2)

\* /class\s+\w+/
ClassPattern(p) ==
    \E i \in 1..Len(p) : Tok(p, i, "class") /\ Tok(p, i + 1, "ws") /\ Word(p, i + 2)

\* /const\s+\w+\s*=\s*\([^)]*\)\s*=>/
ArrowPattern(p) ==
    \E i \in 1..Len(p) :
        /\ Tok(p, i, "const") /\ Tok(p, i + 1, "ws") /\ Word(p, i + 2)
        /\ LET eq == SkipWs(p, i + 3)
               open == SkipWs(p, eq + 1)
           IN /\ Tok(p, eq, "=")
              /\ Tok(p, open, "(")
              /\ \E close \in (open + 1)..Len(p) :
                    /\ Tok(p, close, ")")
                    /\ \A k \in (open + 1)..(close - 1) : p[k] # ")"
                    /\ Tok(p, SkipWs(p, close + 1), "=>")

\* /async\s+function/
AsyncPattern(p) ==
    \E i \in 1..Len(p) : Tok(p, i, "async") /\ Tok(p, i + 1, "ws") /\ Tok(p, i + 2, "function")

\* /export\s+(default\s+)?function/
ExportPattern(p) ==
    \E i \in 1..Len(p) :
        /\ Tok(p, i, "export") /\ Tok(p, i + 1, "ws")
        /\ \/ Tok(p, i + 2, "function")
           \/ Tok(p, i + 2, "default") /\ Tok(p, i + 3, "ws") /\ Tok(p, i + 4, "function")

\* /interface\s+\w+/
InterfacePattern(p) ==
    \E i \in 1..Len(p) : Tok(p, i, "interface") /\ Tok(p, i + 1, "ws") /\ Word(p, i + 2)

\* /type\s+\w+\s*=/ : the = may be the first character of =>.
TypePattern(p) ==
    \E i \in 1..Len(p) :
        /\ Tok(p, i, "type") /\ Tok(p, i + 1, "ws") /\ Word(p, i + 2)
        /\ LET eq == SkipWs(p, i + 3) IN Tok(p, eq, "=") \/ Tok(p, eq, "=>")

\* businessPatterns.some(pattern => pattern.test(patch))
businessPatterns(p) ==
    \/ FunctionPattern(p)
    \/ ClassPattern(p)
    \/ ArrowPattern(p)
    \/ AsyncPattern(p)
    \/ ExportPattern(p)
    \/ InterfacePattern(p)
    \/ TypePattern(p)

detectBusinessLogicAnyFile(filename, patch) == businessPatterns(patch)

detectBusinessLogic(filename, patch) ==
    IF ~hasBusinessExtension(filename) THEN FALSE ELSE businessPatterns(patch)

\* The classification of a changed file.
DetectBusinessLogic ==
    /\ classified = NotClassified
    /\ \E filename \in SampleFilenames, patch \in Patches :
         classified' = [filename |-> filename, patch |-> patch,
                        hasBusinessLogic |-> detectBusinessLogic(filename, patch)]
    /\ UNCHANGED <<decVars, upVars, histVars, pipeVars, mergeCall, conflicts,
                   reviewCall, analyzer, mergeability, filesCall, check, roundTrip>>

InitClassifier ==
    /\ DecOff
    /\ UpOff
    /\ HistOff
    /\ PipeOff
    /\ ExtOff

NextClassifier == DetectBusinessLogic

SpecClassifier == InitClassifier /\ [][NextClassifier]_vars

\* The extensions of the recognized source-code set.
RecognizedExtension(ext) ==
    ext \in {".ts", ".tsx", ".js", ".jsx", ".java", ".py", ".cs", ".go"}

\* The patch has a function, class, interface or type declaration.
HasDeclaration(p) ==
    \/ FunctionPattern(p) \/ ArrowPattern(p) \/ AsyncPattern(p) \/ ExportPattern(p)
    \/ ClassPattern(p)
    \/ InterfacePattern(p)
    \/ TypePattern(p)

\* The patch contains the text 'class Calculator'.
ContainsClassCalculator(p) ==
    \E i \in 1..Len(p) :
        Tok(p, i, "class") /\ Tok(p, i + 1, "ws") /\ Tok(p, i + 2, "Calculator")

\* C21: a changed file is classified hasBusinessLogic = true if and only if
\* its filename ends with an extension of the recognized source-code set and
\* its patch matches a function, class, interface or type declaration
\* pattern; Calculator.java with a patch containing 'class Calculator' is
\* true, and README.md is false whatever its patch contains.
C21_BusinessLogicIffExtensionAndPattern ==
    classified # NotClassified =>
        /\ classified.hasBusinessLogic <=>
              (/\ Len(classified.filename) > 0
               /\ RecognizedExtension(classified.filename[Len(classified.filename)])
               /\ HasDeclaration(classified.patch))
        /\ (/\ classified.filename = <<"Calculator", ".java">>
            /\ ContainsClassCalculator(classified.patch))
              => classified.hasBusinessLogic
        /\ classified.filename = <<"README", ".md">> => ~classified.hasBusinessLogic

\* README.md with a patch containing 'class Calculator' was classified.
C21_Witness ==
    /\ classified # NotClassified
    /\ classified.filename = <<"README", ".md">>
    /\ ContainsClassCalculator(classified.patch)
    /\ ~classified.hasBusinessLogic

\* Calculator.java with a patch containing 'class Calculator' is flagged, and
\* a file whose name has .java before another suffix is not.
CalculatorJavaFlagged ==
    classified # NotClassified =>
        /\ (classified.filename = <<"Calculator", ".java">>
              /\ classified.patch = <<"class", "ws", "Calculator">>)
             => classified.hasBusinessLogic
        /\ classified.filename = <<"notes", ".java", ".md">>
             => ~classified.hasBusinessLogic

(***************************************************************************)
(* checkForConflicts (hooks/useMergeConflict.ts): getMergeabilityStatus,   *)
(* then for a dirty PR the GET of its files, filtered and classified.      *)
(***************************************************************************)
NoPatch == [absent |-> TRUE]

\* The file objects of the hosting API in a response to GET .../files.
ChangedFiles ==
    [filename : {<<"Calculator", ".java">>, <<"README", ".md">>},
     status : {"added", "modified", "removed"},
     patch : {NoPatch, [text |-> <<"class", "ws", "Calculator">>]}]

ChangedFileLists ==
    {<<>>} \cup {<<f>> : f \in ChangedFiles}
           \cup {<<f, g>> : f \in ChangedFiles, g \in ChangedFiles}

\* fetch rejects, the status is not ok, the body is no list, or a file list.
CheckFilesResponses ==
    {[kind |-> "throw"], [kind |-> "status"], [kind |-> "notlist"]}
      \cup [kind : {"ok"}, files : ChangedFileLists]

\* f.patch || ''
PatchText(f) == IF f.patch = NoPatch THEN <<>> ELSE f.patch.text

\* The ConflictFile made of a file object.
ConflictFileOf(f) ==
    [filename |-> f.filename,
     hasBusinessLogic |-> detectBusinessLogic(f.filename, PatchText(f)),
     rawContent |-> f.patch]

\* files.filter(f => f.status === 'modified')
RECURSIVE FilterModified(_)
FilterModified(files) ==
    IF files = <<>> THEN <<>>
    ELSE IF Head(files).status = "modified"
         THEN <<Head(files)>> \o FilterModified(Tail(files))
         ELSE FilterModified(Tail(files))

\* potentialConflicts
potentialConflicts(files) ==
    LET kept == FilterModified(files)
    IN [i \in 1..Len(kept) |-> ConflictFileOf(kept[i])]

\* The statuses getMergeabilityStatus returns to checkForConflicts.
CheckStatuses ==
    {NoStatus} \cup
    {getMergeabilityStatus([kind |-> "ok", mergeable |-> "null",
                            mergeable_state |-> st, behind_by |-> Absent]) :
        st \in MergeableStates}

\* checkForConflicts entry: setIsCheckingConflicts(true), setConflictFiles([]).
CheckStart ==
    /\ check.pc \in {"Idle", "Returned"}
    /\ check' = [CheckIdle EXCEPT !.pc = "StatusRequested",
                                  !.isCheckingConflicts = TRUE]
    /\ UNCHANGED <<decVars, upVars, histVars, pipeVars, mergeCall, conflicts,
                   reviewCall, analyzer, mergeability, filesCall, classified, roundTrip>>

\* getMergeabilityStatus returns: null or no conflicts end the call with
\* false; conflicts send the GET of the files.
CheckStatus ==
    /\ check.pc = "StatusRequested"
    /\ \E st \in CheckStatuses :
         check' =
            IF st # NoStatus /\ st.hasConflicts
            THEN [check EXCEPT !.status = st, !.filesRequests = @ + 1,
                               !.pc = "FilesRequested"]
            ELSE [check EXCEPT !.status = st, !.result = FALSE,
                               !.isCheckingConflicts = FALSE, !.pc = "Returned"]
    /\ UNCHANGED <<decVars, upVars, histVars, pipeVars, mergeCall, conflicts,
                   reviewCall, analyzer, mergeability, filesCall, classified, roundTrip>>

\* The files response arrives: an exception ends the call with false;
\* otherwise the list is set when the response is ok, and the call returns
\* true.
CheckFiles ==
    /\ check.pc = "FilesRequested"
    /\ \E resp \in CheckFilesResponses :
         check' =
            [check EXCEPT
               !.filesResponse = resp,
               !.conflictFiles = IF resp.kind = "ok"
                                 THEN potentialConflicts(resp.files) ELSE @,
               !.result = resp.kind \in {"ok", "status"},
               !.isCheckingConflicts = FALSE,
               !.pc = "Returned"]
    /\ UNCHANGED <<decVars, upVars, histVars, pipeVars, mergeCall, conflicts,
                   reviewCall, analyzer, mergeability, filesCall, classified, roundTrip>>

InitCheck ==
    /\ DecOff
    /\ UpOff
    /\ HistOff
    /\ PipeOff
    /\ ExtOff

NextCheck == CheckStart \/ CheckStatus \/ CheckFiles

SpecCheck == InitCheck /\ [][NextCheck]_vars

\* The call completed for a dirty PR and its file fetch succeeded.
CheckedDirty ==
    /\ check.pc = "Returned"
    /\ check.status # NoStatus
    /\ check.status.mergeableState = "dirty"
    /\ check.filesResponse # NoResponse
    /\ check.filesResponse.kind = "ok"

\* C22: after checkForConflicts completes for a PR whose state is dirty and
\* whose file fetch succeeds, the conflict-file list has one classified
\* entry for each changed file returned by the hosting API, whatever its
\* status; when the state is not dirty the list is empty and no files are
\* fetched.
C22_OneEntryPerChangedFile ==
    /\ CheckedDirty =>
         /\ Len(check.conflictFiles) = Len(check.filesResponse.files)
         /\ \A i \in 1..Len(check.conflictFiles) :
               check.conflictFiles[i] = ConflictFileOf(check.filesResponse.files[i])
    /\ (check.pc = "Returned" /\ ~(check.status # NoStatus
                                    /\ check.status.mergeableState = "dirty"))
          => (check.conflictFiles = <<>> /\ check.filesRequests = 0)

\* What the code does: the list has one classified entry for each changed
\* file of status 'modified', in order; a PR that is not dirty has an empty
\* list and no file request.
OneEntryPerModifiedFile ==
    /\ CheckedDirty =>
         check.conflictFiles = potentialConflicts(check.filesResponse.files)
    /\ \A i \in 1..Len(check.conflictFiles) :
         check.conflictFiles[i].hasBusinessLogic
            <=> (check.conflictFiles[i].filename = <<"Calculator", ".java">>
                   /\ check.conflictFiles[i].rawContent # NoPatch)
    /\ (check.pc = "Returned" /\ ~(check.status # NoStatus
                                    /\ check.status.mergeableState = "dirty"))
          => (check.conflictFiles = <<>> /\ check.filesRequests = 0)

(***************************************************************************)
(* Order of the steps of one run.                                          *)
(***************************************************************************)
\* The steps of a run in order; Analyzing covers the quality analysis and
\* the AI review after it, DecisionComputed is the step leaving Deciding.
PipelineOrder ==
    {<<"Idle", "FilesFetching">>, <<"FilesFetching", "Analyzing">>,
     <<"Analyzing", "Reviewing">>, <<"Reviewing", "Deciding">>,
     <<"Deciding", "Merging">>, <<"Deciding", "CommentPosting">>,
     <<"Merging", "SavingHistory">>, <<"CommentPosting", "SavingHistory">>,
     <<"SavingHistory", "Idle">>}

\* The step of run r in which the decision function is evaluated.
DecisionComputed(r) ==
    /\ runs[r].pc = "Deciding"
    /\ runs'[r].pc \in {"Merging", "CommentPosting"}

SearchPcs == {"getUser", "listComments", "patchExisting", "post"}

LastSent(u) == u.sent[Len(u.sent)]

\* The call has returned true after a POST or after a PATCH of the comment
\* it found.
WroteBySearch(u) ==
    /\ u.pc = "idle"
    /\ u.result = "true"
    /\ u.existing # NoId \/ (Len(u.sent) > 0 /\ LastSent(u).method = "POST")

\* The id of the comment the call wrote: the one it found, or the one
\* created with its body.
WrittenId(u) ==
    IF u.existing # NoId THEN u.existing
    ELSE (CHOOSE c \in comments : c.marker /\ c.text = u.body).id

\* The first request of the call is the update of the id it read.
ReadIdTriedFirst(u) ==
    /\ Len(u.sent) > 0
    /\ u.sent[1].method = "PATCH"
    /\ u.sent[1].id = u.storedId

\* The order of the requests of one call, by the id the call read.
SearchOnlyAfterStoredUpdate(u) ==
    /\ u.pc \in SearchPcs => u.storedId = NoId \/ ReadIdTriedFirst(u)
    /\ u.pc = "idle" /\ u.result = "true" /\ ~WroteBySearch(u)
         => \A i \in 1..Len(u.sent) :
              u.sent[i].method = "PATCH" /\ u.sent[i].id = u.storedId
    /\ \A i \in 1..Len(u.sent) : u.sent[i].method = "POST" => u.existing = NoId
    /\ u.existing # NoId =>
         \A i \in 1..Len(u.sent) :
           u.sent[i].method = "PATCH" /\ u.sent[i].id \in {u.storedId, u.existing}

\* C27: when a comment id is stored the update against it is attempted
\* before any listing or creation, and if it succeeds nothing is searched
\* or created; the search updates the match if there is one and creates a
\* comment only if there is none; after a successful create or search-based
\* update the stored id is the id of the comment just written.
C27_StoredIdFirstAndKept ==
    \A p \in UProcs :
        /\ SearchOnlyAfterStoredUpdate(up[p])
        /\ up[p].pc \in SearchPcs =>
             commentIdStore = NoId \/ (ReadIdTriedFirst(up[p])
                                        /\ up[p].storedId = commentIdStore)
        /\ WroteBySearch(up[p]) => commentIdStore = WrittenId(up[p])

\* What the code gives: the requests of a call are ordered as the claim
\* says with respect to the id the call read.
RequestsOrderedByReadId == \A p \in UProcs : SearchOnlyAfterStoredUpdate(up[p])

\* What the code gives: the stored id changes only to the id of the comment
\* the call has just written.
StoredIdChangesToWrittenId ==
    [][commentIdStore' # commentIdStore =>
         \E c \in comments : /\ c.id = commentIdStore'
                             /\ c.marker
                             /\ c.text = up[1].body]_vars

(***************************************************************************)
(* HistoryStore: a save for one PR and the history of the others.          *)
(***************************************************************************)
\* The step is a save for PR a that wrote the store.
SavedFor(a) == hlog'[a] # hlog[a]

\* C29: appends are per PR: saveHistory(A, e) leaves the result of
\* getHistory(B) unchanged for every other PR B, also when the read of the
\* underlying store fails during the save.
C29_SaveLeavesOtherPRs ==
    [][\A a, b \in HistPRs :
         (a # b /\ SavedFor(a)) => getHistory(b, TRUE)' = getHistory(b, TRUE)]_vars

\* What the code gives: the rows of the database-backed store of the other
\* PRs are untouched by an insert.
InsertLeavesOtherPRs ==
    [][\A a, b \in HistPRs :
         (a # b /\ SavedFor(a)) => dbHistory'[b] = dbHistory[b]]_vars

(***************************************************************************)
(* Decision-history round trip: saveAutoMergeHistory writes the fields of  *)
(* an entry to a row of auto_merge_history, getAutoMergeHistory maps the   *)
(* row back to an entry (hooks/useConfigDatabase.ts).                      *)
(***************************************************************************)
ReadAIThresholdDefault == 70
ReadSonarThresholdDefault == 5

NoDetails == [undefined |-> TRUE]       \* entry.details not set

DbNull == [null |-> TRUE]               \* a column without a value

\* A column that holds the value x.
Col(x) == [v |-> x]

DetailsValues == {NoDetails, Col("Mode=greater, aiScore=3 >= 0 => true")}

\* AutoMergeHistoryEntry without its timestamp, which the database assigns.
HistoryEntries ==
    [aiScore : {0, MaxScore}, sonarIssues : {0, MaxIssues},
     mode : {"less", "greater"},
     aiThreshold : {0, AIThresholdSetting},
     sonarThreshold : {0, SonarThresholdSetting},
     decision : Decisions, details : DetailsValues]

\* The object passed to insert(): an undefined property is not sent and the
\* column is null.
RowOf(entry) ==
    [ai_score |-> Col(entry.aiScore), sonar_issues |-> Col(entry.sonarIssues),
     mode |-> Col(entry.mode), ai_threshold |-> Col(entry.aiThreshold),
     sonar_threshold |-> Col(entry.sonarThreshold), decision |-> Col(entry.decision),
     details |-> IF entry.details = NoDetails THEN DbNull ELSE entry.details]

\* Number(c): 0 for null.
NumberOf(c) == IF c = DbNull THEN 0 ELSE c.v

\* n || d for a number n.
OrNumber(n, d) == IF n = 0 THEN d ELSE n

\* c || d for a text column c.
OrString(c, d) == IF c = DbNull THEN d ELSE IF c.v = "" THEN d ELSE c.v

\* The map of getAutoMergeHistory over one row.
EntryOf(row) ==
    [aiScore |-> OrNumber(NumberOf(row.ai_score), 0),
     sonarIssues |-> OrNumber(NumberOf(row.sonar_issues), 0),
     mode |-> OrString(row.mode, "less"),
     aiThreshold |-> OrNumber(NumberOf(row.ai_threshold), ReadAIThresholdDefault),
     sonarThreshold |-> OrNumber(NumberOf(row.sonar_threshold), ReadSonarThresholdDefault),
     decision |-> OrString(row.decision, "disabled"),
     details |-> row.details]

\* saveAutoMergeHistory(prNumber, entry): the insert succeeds or fails.
SaveEntry ==
    /\ roundTrip.pc = "Idle"
    /\ \E entry \in HistoryEntries, ok \in BOOLEAN :
         roundTrip' = IF ok
                      THEN [roundTrip EXCEPT !.pc = "Saved", !.entry = entry,
                                             !.row = RowOf(entry)]
                      ELSE [roundTrip EXCEPT !.pc = "SaveFailed", !.entry = entry]
    /\ UNCHANGED <<decVars, upVars, histVars, pipeVars, mergeCall, conflicts, reviewCall, analyzer, mergeability, filesCall, classified, check>>

\* getAutoMergeHistory(prNumber): the row mapped back, or [] on an error.
ReadEntry ==
    /\ roundTrip.pc = "Saved"
    /\ \E ok \in BOOLEAN :
         roundTrip' = IF ok
                      THEN [roundTrip EXCEPT !.pc = "Read", !.read = EntryOf(roundTrip.row)]
                      ELSE [roundTrip EXCEPT !.pc = "ReadFailed"]
    /\ UNCHANGED <<decVars, upVars, histVars, pipeVars, mergeCall, conflicts, reviewCall, analyzer, mergeability, filesCall, classified, check>>

InitRoundTrip ==
    /\ DecOff
    /\ UpOff
    /\ HistOff
    /\ PipeOff
    /\ ExtOff

NextRoundTrip == SaveEntry \/ ReadEntry

SpecRoundTrip == InitRoundTrip /\ [][NextRoundTrip]_vars

\* Details that are not set are read back as null; both mean no details.
SameDetails(d, e) == (d \in {NoDetails, DbNull} /\ e \in {NoDetails, DbNull}) \/ d = e

SameFields(r, e) ==
    /\ r.aiScore = e.aiScore
    /\ r.sonarIssues = e.sonarIssues
    /\ r.mode = e.mode
    /\ r.aiThreshold = e.aiThreshold
    /\ r.sonarThreshold = e.sonarThreshold
    /\ r.decision = e.decision
    /\ SameDetails(r.details, e.details)

\* C28: for every DecisionRecord e saved for a PR, the record read back has
\* the same aiScore, sonarIssues, mode, aiThreshold, sonarThreshold, decision
\* and details as e, also when aiScore, sonarIssues, aiThreshold or
\* sonarThreshold is 0.
C28_HistoryRoundTrip ==
    roundTrip.pc = "Read" => SameFields(roundTrip.read, roundTrip.entry)

\* What the code gives: the round trip keeps every field of an entry whose
\* two thresholds are not 0, also when aiScore and sonarIssues are 0.
RoundTripWithNonZeroThresholds ==
    (/\ roundTrip.pc = "Read"
     /\ roundTrip.entry.aiThreshold # 0
     /\ roundTrip.entry.sonarThreshold # 0)
        => SameFields(roundTrip.read, roundTrip.entry)

(***************************************************************************)
(* Progress of a pipeline run: every await of a run returns, with a result *)
(* or with a failure; what the user does is left open.                     *)
(***************************************************************************)
\* The configuration under which both the merge and the comment branch are
\* taken.
LiveConfig ==
    [enabled |-> TRUE, mode |-> "less", aiThreshold |-> AIThresholdSetting,
     sonarThreshold |-> SonarThresholdSetting, requireJUnitForJava |-> FALSE,
     junitThreshold |-> JUnitThresholdSetting]

InitPipelineLive == InitPipeline /\ amConfig = LiveConfig

\* The step of run r that is waiting for a timer or a response.
RunStep(r) ==
    \/ FetchPRFiles(r)
    \/ AnalyzePR(r)
    \/ GenerateAIReview(r)
    \/ Decide(r)
    \/ MergePR(r)
    \/ UpsertComment(r)
    \/ SaveHistory(r)

\* The user works on one PR.
LivePRs == {1}

NextPipelineLive ==
    \/ \E pr \in LivePRs : HandleSelectPR(pr)
    \/ \E r \in RunIds : HandleRunAnalysis(r) \/ RunStep(r)

SpecPipelineLive ==
    /\ InitPipelineLive
    /\ [][NextPipelineLive]_vars
    /\ \A r \in RunIds : WF_vars(RunStep(r))

\* No run is in progress and the Run Full Analysis button is enabled.
RunCanStart ==
    /\ \E r \in RunIds : runs[r].pc = "Idle"
    /\ ~isAnalyzing

\* C30: every started run eventually returns to Idle, whatever the file
\* fetch, the quality analysis and the AI review return: the busy
\* indicators are eventually false again and a new run can be started.
C30_RunReturnsToIdle ==
    /\ \A r \in RunIds : (runs[r].pc # "Idle") ~> (runs[r].pc = "Idle")
    /\ isAnalyzing ~> ~isAnalyzing
    /\ isGeneratingAI ~> ~isGeneratingAI
    /\ (\E r \in RunIds : runs[r].pc # "Idle") ~> (RunCanStart /\ ~isGeneratingAI)

\* A run has finished and its slot is Idle again: its quality report is
\* shown, no AI review is shown, and both indicators are false.
C30_Witness ==
    \E r \in RunIds :
        /\ runs[r].finished
        /\ runs[r].pc = "Idle"
        /\ runs[r].pr # NoPR
        /\ aiReview = NoPR
        /\ sonarResults = runs[r].pr
        /\ ~isAnalyzing
        /\ ~isGeneratingAI

====
